---- MODULE Spec2Model ----
(***************************************************************************)
(* A model of the validation-and-counting engine of rcounting:             *)
(*   - Tree / CommentTree (src/rcounting/models.py): the parent-pointer    *)
(*     forest, its structural edits, depth memoisation and lazy fetches;   *)
(*   - DFA / DFASideThread (src/rcounting/side_threads/dfa.py): word       *)
(*     ranking for the only-repeating, mostly-repeating and                *)
(*     only-consecutive digit languages;                                   *)
(*   - CountingRule, FastOrSlow, OnlyDoubleCounting and                    *)
(*     SideThread.find_errors (src/rcounting/side_threads/side_threads.py).*)
(* Each part has its own specification over the shared variables; the      *)
(* variables a specification does not use keep their initial value.        *)
(***************************************************************************)
EXTENDS Integers, Sequences, FiniteSets, TLC

VARIABLES
    nodes,      \* Tree.nodes: the ids that have a node entry
    tree,       \* Tree.tree: the parent map, child id -> parent id
    depths,     \* Tree.depths: the memoised depths, id -> depth
    last,       \* the last Tree call: its name, what it raised, what it deleted
    lang,       \* DFASideThread: the language (subclass) in use
    base,       \* DFASideThread.n: the base of the words
    precalc,    \* DFASideThread.precalculate
    word,       \* the word last handed to DFASideThread.count
    cnt,        \* what count returned for word
    prev,       \* the greatest valid word counted before word, with its count
    history,    \* the history frame handed to a rule or to find_errors
    rule,       \* the rule (or "find_errors") last applied to history
    mask,       \* what that call returned
    automaton,  \* a DFA: its n_symbols and n_states
    transitions,        \* DFA.transitions: the cached powers, [k] at k + 1
    transition_matrix,  \* DFA.transition_matrix, << >> while None
    requested,  \* the indices i that dfa[i] was asked for
    returned,   \* what the last dfa[i] returned
    form,       \* SideThread.form: the bodies the format predicate accepts
    post,       \* the comment last handed to SideThread.is_valid_count
    verdict,    \* the boolean is_valid_count returned for it
    side_thread,    \* a SideThread: what it was constructed with, and update_count
    updated,    \* what the last update_count call returned
    requests,   \* the requests made to the source: how many per comment id
    failing,    \* the comment ids for which the source raises
    walked,     \* the last walk of the tree: its arguments and what it returned
    order,      \* the keys of the parent map in the order the dict holds them
    created_utc, \* comment id -> the time the comment was made
    comment_body, \* comment id -> the text of the comment
    comment_tree, \* whether the tree walked is a CommentTree
    answer,     \* the last query of the tree: its arguments and what it returned
    comment_author, \* comment id -> the user who made the comment
    text,       \* the text last handed to find_count_in_text
    parsed      \* what find_count_in_text returned or raised for it

vars ==
    <<nodes, tree, depths, last, lang, base, precalc, word, cnt, prev,
      history, rule, mask,
      automaton, transitions, transition_matrix, requested, returned,
      form, post, verdict, side_thread, updated, requests, failing, walked,
      order, created_utc, comment_body, comment_tree, answer, comment_author,
      text, parsed>>

treeVars == <<nodes, tree, depths, last>>
dfaVars == <<lang, base, precalc, word, cnt, prev>>
histVars == <<history, rule, mask>>
cacheVars == <<automaton, transitions, transition_matrix, requested, returned>>
countVars == <<form, post, verdict>>
threadVars == <<side_thread, updated>>
fetchVars == <<requests, failing>>
walkVars == <<walked, order, created_utc, comment_body, comment_tree, answer, comment_author>>
parseVars == <<text, parsed>>
\* the variables of the parts below the rules
restVars == <<cacheVars, countVars, threadVars, fetchVars, walkVars, parseVars>>

(***************************************************************************)
(* Python dictionaries as functions with a finite domain.                  *)
(***************************************************************************)
EmptyDict == << >>

\* dict.update(new)
DictUpdate(d, new) ==
    [k \in (DOMAIN d) \cup (DOMAIN new) |-> IF k \in DOMAIN new THEN new[k] ELSE d[k]]

\* del d[k]
DictDel(d, k) == [x \in (DOMAIN d) \ {k} |-> d[x]]

DictValues(d) == {d[k] : k \in DOMAIN d}

\* all orders in which the elements of a finite set can be listed
RECURSIVE Orders(_)
Orders(S) ==
    IF S = {} THEN {<< >>}
    ELSE UNION {{<<x>> \o o : o \in Orders(S \ {x})} : x \in S}

(***************************************************************************)
(* The external source (reddit): a fixed reply forest over the ids.        *)
(* Comment i replies to comment i \div 2; comment 1 replies to the         *)
(* submission itself (it is a root comment).                               *)
(***************************************************************************)
NIds == 3
Ids == 1..NIds
Submission == 0

SourceParent(i) == i \div 2

\* models.is_root / Comment.is_root: parent_id == submission_id
IsRootComment(i) == SourceParent(i) = Submission

(***************************************************************************)
(* Tree                                                                    *)
(***************************************************************************)
\* Tree.reversed_tree[x]: the children of x (edges_to_tree gives a
\* defaultdict, so an id without children has the empty list)
ReversedTree(tr, x) == {c \in DOMAIN tr : tr[c] = x}

\* Tree.root_ids
RootIds(ns, tr) ==
    LET raw == (ns \cup DictValues(tr)) \ DOMAIN tr
    IN  {x \in raw : x \in ns}
          \cup UNION {ReversedTree(tr, x) : x \in {y \in raw : y \notin ns}}

\* add_nodes without its second line: the node map is not updated
AddNodesResultNoNodes(ns, tr, newNodes, newTree) ==
    [nodes |-> ns, tree |-> DictUpdate(tr, newTree)]

\* Tree.add_nodes
AddNodesResult(ns, tr, newNodes, newTree) ==
    [nodes |-> ns \cup newNodes, tree |-> DictUpdate(tr, newTree)]

\* the parent entries written the wrong way round, parent id -> comment id
NewTreeOfSwapped(comments) ==
    LET replies == {x \in comments : ~IsRootComment(x)}
    IN  [p \in {SourceParent(c) : c \in replies} |->
            CHOOSE c \in replies : SourceParent(c) = p]

\* CommentTree.add_comments: the parent entries of the comments that are not
\* root comments, then Tree.add_nodes
NewTreeOf(comments) ==
    [c \in {x \in comments : ~IsRootComment(x)} |-> SourceParent(c)]

AddCommentsResult(ns, tr, comments) ==
    AddNodesResult(ns, tr, comments, NewTreeOf(comments))

\* delete_node without its last two lines: the parent entry stays
DeleteNodeResultKeepsEntry(ns, tr, n) ==
    IF n \notin ns
    THEN [nodes |-> ns, tree |-> tr, raised |-> "KeyError"]
    ELSE [nodes |-> ns \ {n}, tree |-> tr, raised |-> "none"]

\* Tree.delete_node: del self.nodes[id] raises KeyError for an id without a
\* node entry, before the parent map is touched
DeleteNodeResult(ns, tr, n) ==
    IF n \notin ns
    THEN [nodes |-> ns, tree |-> tr, raised |-> "KeyError"]
    ELSE [nodes |-> ns \ {n},
          tree |-> IF n \in DOMAIN tr THEN DictDel(tr, n) ELSE tr,
          raised |-> "none"]

\* Tree.delete_subtree: the breadth-first loop over a queue.  find_children
\* looks every child up in the node map (KeyError for a child without a node
\* entry) before the node itself is deleted.  The children are queued in the
\* order of the parent map's insertion order, which the model leaves open:
\* the result is the set of outcomes over all orders.
RECURSIVE DeleteSubtreeRun(_, _, _)
DeleteSubtreeRun(queue, ns, tr) ==
    IF queue = << >>
    THEN {[nodes |-> ns, tree |-> tr, raised |-> "none"]}
    ELSE LET n == Head(queue)
             children == ReversedTree(tr, n)
             del == DeleteNodeResult(ns, tr, n)
         IN  IF \E c \in children : c \notin ns
             THEN {[nodes |-> ns, tree |-> tr, raised |-> "KeyError"]}
             ELSE IF del.raised # "none"
             THEN {del}
             ELSE UNION {DeleteSubtreeRun(Tail(queue) \o o, del.nodes, del.tree)
                            : o \in Orders(children)}

DeleteSubtreeResults(ns, tr, n) == DeleteSubtreeRun(<<n>>, ns, tr)

\* Tree.find_depth, with the memo threaded through: [val, raised, cache].
\* raised is the exception the call ends with ("none" when it returns val).
\* Nothing is memoised on a path that ends with an exception.  The recursion
\* has no base case on a cycle of the parent map; Python ends it with
\* RecursionError, which the fuel stands for (a chain of more than NIds
\* links has a cycle).
DepthRaise(exc, cache) == [val |-> 0 - 1, raised |-> exc, cache |-> cache]

RECURSIVE FindDepthRun(_, _, _, _, _)
\* find_depth memoising the parent's depth instead of the node's own
FindDepthRunMemoParent(ns, tr, cache, id, fuel) ==
    IF id \in RootIds(ns, tr) THEN [val |-> 0, raised |-> "none", cache |-> cache]
    ELSE IF id \in DOMAIN cache
    THEN [val |-> cache[id], raised |-> "none", cache |-> cache]
    ELSE IF id \notin DOMAIN tr THEN DepthRaise("KeyError", cache)
    ELSE IF tr[id] \notin ns THEN DepthRaise("KeyError", cache)
    ELSE IF fuel = 0 THEN DepthRaise("RecursionError", cache)
    ELSE LET up == FindDepthRun(ns, tr, cache, tr[id], fuel - 1)
         IN  IF up.raised # "none"
             THEN DepthRaise(up.raised, cache)
             ELSE [val |-> 1 + up.val, raised |-> "none",
                   cache |-> DictUpdate(up.cache, [k \in {id} |-> up.val])]

FindDepthRun(ns, tr, cache, id, fuel) ==
    IF id \in RootIds(ns, tr) THEN [val |-> 0, raised |-> "none", cache |-> cache]
    ELSE IF id \in DOMAIN cache
    THEN [val |-> cache[id], raised |-> "none", cache |-> cache]
    ELSE IF id \notin DOMAIN tr THEN DepthRaise("KeyError", cache)
    ELSE IF tr[id] \notin ns THEN DepthRaise("KeyError", cache)
    ELSE IF fuel = 0 THEN DepthRaise("RecursionError", cache)
    ELSE LET up == FindDepthRun(ns, tr, cache, tr[id], fuel - 1)
         IN  IF up.raised # "none"
             THEN DepthRaise(up.raised, cache)
             ELSE [val |-> 1 + up.val, raised |-> "none",
                   cache |-> DictUpdate(up.cache, [k \in {id} |-> 1 + up.val])]

FindDepth(ns, tr, cache, id) == FindDepthRun(ns, tr, cache, id, NIds + 1)

(***************************************************************************)
(* CommentTree: the lazy fetches                                           *)
(***************************************************************************)
\* add_missing_parents walks at most this many comments up from the one asked for
FetchChain == 9

\* the comments add_missing_parents collects: the comment and its ancestors,
\* FetchChain of them at most, stopping at a root comment
RECURSIVE AncestorChain(_, _)
AncestorChain(id, k) ==
    IF k = 0 THEN {}
    ELSE IF IsRootComment(id) THEN {id}
    ELSE {id} \cup AncestorChain(SourceParent(id), k - 1)

\* praw_comment.replies after replace_more, as a flat list: every comment
\* below id in the source
SourceReplies(id) ==
    LET RECURSIVE Below(_, _)
        Below(S, k) ==
            IF k = 0 THEN S
            ELSE Below(S \cup {c \in Ids : SourceParent(c) \in S}, k - 1)
    IN  Below({id}, NIds) \ {id}

\* CommentTree.add_missing_parents
AddMissingParentsResult(ns, tr, id) ==
    IF IsRootComment(id)
    THEN AddCommentsResult(ns, tr, {id})
    ELSE AddCommentsResult(ns, tr, AncestorChain(id, FetchChain))

\* CommentTree.add_missing_replies, handed a comment
AddMissingRepliesResult(ns, tr, id) ==
    LET own == IF id \notin ns THEN AddCommentsResult(ns, tr, {id})
                               ELSE [nodes |-> ns, tree |-> tr]
        replies == SourceReplies(id)
    IN  IF replies # {} THEN AddCommentsResult(own.nodes, own.tree, replies) ELSE own

(***************************************************************************)
(* The Tree calls as actions                                               *)
(***************************************************************************)
Called(op, raised, removed) == [op |-> op, raised |-> raised, removed |-> removed]

\* the arguments of one add_nodes call: at most one node and one parent entry
NodeArgs == {{}} \cup {{i} : i \in Ids}
TreeArgs == {EmptyDict} \cup {[k \in {c} |-> p] : c \in Ids, p \in Ids}

AddNodes(newNodes, newTree) ==
    LET r == AddNodesResult(nodes, tree, newNodes, newTree)
    IN  /\ nodes' = r.nodes
        /\ tree' = r.tree
        /\ last' = Called("add_nodes", "none", {})
        /\ UNCHANGED depths

AddComments(comments) ==
    LET r == AddCommentsResult(nodes, tree, comments)
    IN  /\ nodes' = r.nodes
        /\ tree' = r.tree
        /\ last' = Called("add_comments", "none", {})
        /\ UNCHANGED depths

DeleteNode(n) ==
    LET r == DeleteNodeResult(nodes, tree, n)
    IN  /\ nodes' = r.nodes
        /\ tree' = r.tree
        /\ last' = Called("delete_node", r.raised, nodes \ r.nodes)
        /\ UNCHANGED depths

DeleteSubtree(n) ==
    \E r \in DeleteSubtreeResults(nodes, tree, n) :
        /\ nodes' = r.nodes
        /\ tree' = r.tree
        /\ last' = Called("delete_subtree", r.raised, nodes \ r.nodes)
        /\ UNCHANGED depths

\* CommentTree.node(id) with a source: an id without a parent entry is
\* fetched with its ancestors before the node map is read
Node(id) ==
    /\ id \notin DOMAIN tree
    /\ LET r == AddMissingParentsResult(nodes, tree, id)
       IN  /\ nodes' = r.nodes
           /\ tree' = r.tree
    /\ last' = Called("node", "none", {})
    /\ UNCHANGED depths

AddMissingReplies(id) ==
    /\ LET r == AddMissingRepliesResult(nodes, tree, id)
       IN  /\ nodes' = r.nodes
           /\ tree' = r.tree
    /\ last' = Called("add_missing_replies", "none", {})
    /\ UNCHANGED depths

FindDepthCall(id) ==
    LET r == FindDepth(nodes, tree, depths, id)
    IN  /\ depths' = r.cache
        /\ last' = Called("find_depth", r.raised, {})
        /\ UNCHANGED <<nodes, tree>>

AddNodesCall == \E nn \in NodeArgs, nt \in TreeArgs : AddNodes(nn, nt)
AddCommentsCall == \E cs \in (SUBSET Ids) \ {{}} : AddComments(cs)
DeleteNodeCall == \E n \in Ids : DeleteNode(n)
DeleteSubtreeCall == \E n \in Ids : DeleteSubtree(n)
NodeCall == \E id \in Ids : Node(id)
AddMissingRepliesCall == \E id \in Ids : AddMissingReplies(id)

TreeInit ==
    /\ nodes = {}
    /\ tree = EmptyDict
    /\ depths = EmptyDict
    /\ last = Called("init", "none", {})

DfaIdle ==
    /\ lang = "none"
    /\ base = 0
    /\ precalc = FALSE
    /\ word = << >>
    /\ cnt = 0
    /\ prev = << >>
HistIdle == history = << >> /\ rule = "none" /\ mask = << >>

CacheIdle ==
    /\ automaton = [n_symbols |-> 0, n_states |-> 0]
    /\ transitions = << >>
    /\ transition_matrix = << >>
    /\ requested = {}
    /\ returned = << >>

CountIdle == form = {} /\ post = << >> /\ verdict = FALSE

ThreadIdle == side_thread = << >> /\ updated = 0

FetchIdle == requests = << >> /\ failing = {}

WalkIdle ==
    /\ walked = << >>
    /\ order = << >>
    /\ created_utc = << >>
    /\ comment_body = << >>
    /\ comment_tree = FALSE
    /\ answer = << >>
    /\ comment_author = << >>

ParseIdle == text = << >> /\ parsed = 0

RestIdle == CacheIdle /\ CountIdle /\ ThreadIdle /\ FetchIdle /\ WalkIdle /\ ParseIdle

\* The structural life of a comment tree: every edit and every lazy fetch,
\* in any order.
Init == TreeInit /\ DfaIdle /\ HistIdle /\ RestIdle

Next ==
    \/ AddNodesCall /\ UNCHANGED <<dfaVars, histVars, restVars>>
    \/ AddCommentsCall /\ UNCHANGED <<dfaVars, histVars, restVars>>
    \/ DeleteNodeCall /\ UNCHANGED <<dfaVars, histVars, restVars>>
    \/ DeleteSubtreeCall /\ UNCHANGED <<dfaVars, histVars, restVars>>
    \/ NodeCall /\ UNCHANGED <<dfaVars, histVars, restVars>>
    \/ AddMissingRepliesCall /\ UNCHANGED <<dfaVars, histVars, restVars>>

Spec == Init /\ [][Next]_vars

\* A forest is built with add_nodes and then queried with find_depth: no
\* add_nodes call follows the first memoised depth.
BuildNext ==
    \/ depths = EmptyDict /\ AddNodesCall /\ UNCHANGED <<dfaVars, histVars, restVars>>
    \/ (\E id \in Ids : FindDepthCall(id)) /\ UNCHANGED <<dfaVars, histVars, restVars>>

SpecBuild == Init /\ [][BuildNext]_vars

(***************************************************************************)
(* DFA and DFASideThread                                                   *)
(***************************************************************************)
\* Python's ** on naturals (0 ** 0 is 1)
RECURSIVE Pow(_, _)
Pow(b, e) == IF e = 0 THEN 1 ELSE b * Pow(b, e - 1)

RECURSIVE SumOver(_, _)
\* sum(f[x] for x in S)
SumOver(S, f) ==
    IF S = {} THEN 0
    ELSE LET x == CHOOSE y \in S : TRUE IN f[x] + SumOver(S \ {x}, f)

Min(a, b) == IF a < b THEN a ELSE b

\* math.comb and math.perm
RECURSIVE Comb(_, _)
Comb(n, k) ==
    IF k < 0 \/ k > n THEN 0
    ELSE IF k = 0 THEN 1
    ELSE (Comb(n - 1, k - 1) * n) \div k

RECURSIVE Perm(_, _)
Perm(n, k) == IF k > n THEN 0 ELSE IF k = 0 THEN 1 ELSE n * Perm(n - 1, k - 1)

\* A word is a sequence of digits, most significant first.  The two module
\* level automata, dfa_10_3 and dfa_10_2, have NSymbols symbols.
NSymbols == 10
Dfa(nStates) == [n_symbols |-> NSymbols, n_states |-> nStates]

\* n_states ** pos for pos in 0..NSymbols, as a tuple (read at pos + 1)
RECURSIVE PowersUpTo(_, _)
PowersUpTo(b, n) == IF n < 0 THEN << >> ELSE Append(PowersUpTo(b, n - 1), Pow(b, n))
PowersOf2 == PowersUpTo(2, NSymbols)
PowersOf3 == PowersUpTo(3, NSymbols)
PlaceValue(dfa, pos) ==
    IF dfa.n_states = 2 THEN PowersOf2[pos + 1]
    ELSE IF dfa.n_states = 3 THEN PowersOf3[pos + 1]
    ELSE Pow(dfa.n_states, pos)

\* DFA.lookup: one more occurrence, saturating at n_states - 1
Lookup(dfa, x) == Min(x + 1, dfa.n_states - 1)

\* the digit of state i at position pos (the occurrence class of symbol pos)
StateDigit(dfa, i, pos) == (i \div PlaceValue(dfa, pos)) % dfa.n_states

\* Counter(word)[digit]
Occurrences(w, digit) == Cardinality({k \in 1..Len(w) : w[k] = digit})

\* DFA.get_state
GetState(dfa, w) ==
    SumOver(0..(dfa.n_symbols - 1),
            [pos \in 0..(dfa.n_symbols - 1) |->
                PlaceValue(dfa, pos) * Min(dfa.n_states - 1, Occurrences(w, pos))])

\* DFA._connections: js, the successor of state i for every symbol
SuccessorOf(dfa, i, pos) ==
    LET x == StateDigit(dfa, i, pos)
    IN  i + (Lookup(dfa, x) - x) * PlaceValue(dfa, pos)

\* _connections with every successor given the weight 1
ConnectionsUnweighted(dfa, i) ==
    [j \in {SuccessorOf(dfa, i, pos) : pos \in 0..(dfa.n_symbols - 1)} \ {1} |-> 1]

\* DFA._connections: the successors with their weights; state 1 is skipped
Connections(dfa, i) ==
    LET symbols == 0..(dfa.n_symbols - 1)
        js == {SuccessorOf(dfa, i, pos) : pos \in symbols} \ {1}
    IN  [j \in js |-> Cardinality({pos \in symbols : SuccessorOf(dfa, i, pos) = j})]

\* dfa[k][state, indices].sum(): the weight of the paths of k steps from
\* state into the accepting states.  dfa[0] is the identity and
\* dfa[k] = dfa[k - 1] * transition_matrix.  The row of state i in the
\* transition matrix holds, for every j but 1, the number of symbols whose
\* successor is j (Connections), so a sum over the row weighted by what
\* follows is a sum over the symbols whose successor is not 1.
RECURSIVE RowSumFrom(_, _, _, _, _)
\* the row sum with the edges into state 1 kept: words may start with 0
RowSumFromKeepsOne(dfa, indices, k, state, pos) ==
    IF pos = dfa.n_symbols THEN 0
    ELSE LET j == SuccessorOf(dfa, state, pos)
             rest == RowSumFrom(dfa, indices, k, state, pos + 1)
         IN  IF k = 1 THEN (IF j \in indices THEN 1 ELSE 0) + rest
             ELSE RowSumFrom(dfa, indices, k - 1, j, 0) + rest

RowSumFrom(dfa, indices, k, state, pos) ==
    IF pos = dfa.n_symbols THEN 0
    ELSE LET j == SuccessorOf(dfa, state, pos)
             rest == RowSumFrom(dfa, indices, k, state, pos + 1)
         IN  IF j = 1 THEN rest
             ELSE IF k = 1 THEN (IF j \in indices THEN 1 ELSE 0) + rest
             ELSE RowSumFrom(dfa, indices, k - 1, j, 0) + rest

RowSum(dfa, indices, k, state) ==
    IF k = 0 THEN (IF state \in indices THEN 1 ELSE 0)
    ELSE RowSumFrom(dfa, indices, k, state, 0)

\* int("".join(x), b) of a string of n characters given as a function on 1..n
RECURSIVE StrToInt(_, _, _)
StrToInt(x, n, b) ==
    IF n = 0 THEN 0 ELSE StrToInt(x, n - 1, b) * b + x[n]

\* OnlyRepeatingDigits._generate_indices: the strings over "02" of length n,
\* but the first ("00...0")
OnlyRepeatingStrings(n) == [1..n -> {0, 2}] \ {[k \in 1..n |-> 0]}

OnlyRepeatingIndices(n) == {StrToInt(x, n, 3) : x \in OnlyRepeatingStrings(n)}

\* MostlyRepeatingDigits.add_one and _generate_indices
AddOne(x) == {[x EXCEPT ![ix] = 1] : ix \in {k \in DOMAIN x : x[k] = 0}}

MostlyRepeatingIndices(n) ==
    {StrToInt(y, n, 3) : y \in UNION {AddOne(x) : x \in OnlyRepeatingStrings(n)}}

\* OnlyConsecutiveDigits.pad and _generate_indices: a run of ones, padded
\* with zeros on both sides to n characters
Pad(len, n) ==
    {[k \in 1..n |-> IF k > i /\ k <= i + len THEN 1 ELSE 0] : i \in 0..(n - len)}

OnlyConsecutiveIndices(n) ==
    {StrToInt(p, n, 2) : p \in UNION {Pad(len, n) : len \in 1..n}}

\* count_only_repeating_words
CountOnlyRepeatingWords(n, k, bijective) ==
    LET terms == 0..Min(n, k)
        total == SumOver(terms,
                    [i \in terms |->
                        (IF i % 2 = 0 THEN 1 ELSE 0 - 1)
                            * Pow(n - i, k - i) * Comb(n, i) * Perm(k, i)])
    IN  IF bijective THEN total ELSE (total * (n - 1)) \div n

\* full_base_words
RECURSIVE FullBaseWords(_, _)
FullBaseWords(n, k) ==
    IF k = 1 THEN 1
    ELSE Pow(n, k)
            - SumOver(0..(n - 1), [i \in 0..(n - 1) |-> Comb(n, i) * FullBaseWords(i, k)])

\* complete_words of only consecutive digits with bijective=True: the words
\* that start with zero are not taken off
OnlyConsecutiveWordsBijective(n, k) ==
    SumOver(1..Min(k, n), [i \in 1..Min(k, n) |-> (n - i + 1) * FullBaseWords(i, k)])

\* OnlyConsecutiveDigits.complete_words
OnlyConsecutiveWords(n, k) ==
    LET sizes == 1..Min(k, n)
        total == SumOver(sizes, [i \in sizes |-> (n - i + 1) * FullBaseWords(i, k)])
        zero == SumOver(sizes, [i \in sizes |-> FullBaseWords(i, k) \div i])
    IN  total - zero

\* the three subclasses of DFASideThread
Langs == {"only_repeating", "mostly_repeating", "only_consecutive"}

\* the automaton each subclass hands to DFASideThread.__init__
DfaOf(lg) == IF lg = "only_consecutive" THEN Dfa(2) ELSE Dfa(3)

\* self.offset: only consecutive digits skips the nine single-digit counts
SingleDigitOffset == 9
OffsetOf(lg) == IF lg = "only_consecutive" THEN SingleDigitOffset ELSE 0

\* self.is_homogeneous
IsHomogeneous(lg) == lg # "only_consecutive"

\* complete_words of each subclass
CompleteWords(lg, n, k) ==
    CASE lg = "only_repeating" -> CountOnlyRepeatingWords(n, k, FALSE)
      [] lg = "mostly_repeating" ->
            IF k < 3 THEN 0
            ELSE (n - 1) * k * CountOnlyRepeatingWords(n - 1, k - 1, TRUE)
      [] lg = "only_consecutive" -> OnlyConsecutiveWords(n, k)

\* _generate_indices of each subclass
GenerateIndices(lg, n) ==
    CASE lg = "only_repeating" -> OnlyRepeatingIndices(n)
      [] lg = "mostly_repeating" -> MostlyRepeatingIndices(n)
      [] lg = "only_consecutive" -> OnlyConsecutiveIndices(n)

\* The bases the model runs the side threads in: the registered base 10, with
\* words of up to MaxLen10 digits, and a small base with words of up to
\* MaxLen digits.
SmallBase == 3
MaxLen == 3
MaxLen10 == 2
Bases == {SmallBase, NSymbols}
MaxLenOf(n) == IF n = NSymbols THEN MaxLen10 ELSE MaxLen

\* self.indices, computed once per side thread (DFASideThread._setup)
OnlyRepeatingSmall == GenerateIndices("only_repeating", SmallBase)
MostlyRepeatingSmall == GenerateIndices("mostly_repeating", SmallBase)
OnlyConsecutiveSmall == GenerateIndices("only_consecutive", SmallBase)
OnlyRepeating10 == GenerateIndices("only_repeating", NSymbols)
MostlyRepeating10 == GenerateIndices("mostly_repeating", NSymbols)
OnlyConsecutive10 == GenerateIndices("only_consecutive", NSymbols)
IndicesOf(lg, n) ==
    CASE lg = "only_repeating" ->
            IF n = NSymbols THEN OnlyRepeating10 ELSE OnlyRepeatingSmall
      [] lg = "mostly_repeating" ->
            IF n = NSymbols THEN MostlyRepeating10 ELSE MostlyRepeatingSmall
      [] lg = "only_consecutive" ->
            IF n = NSymbols THEN OnlyConsecutive10 ELSE OnlyConsecutiveSmall

\* DFASideThread.word_is_valid
WordIsValid(lg, n, w) == GetState(DfaOf(lg), w) \in IndicesOf(lg, n)

\* the closed form taking the first digit itself for the number of smaller ones
SmallerLeadingDigitOffByOne(lg, n, w) ==
    (w[1] * CompleteWords(lg, n, Len(w))) \div (n - 1)

\* the closed form for the words of the same length with a smaller first digit
SmallerLeadingDigit(lg, n, w) ==
    ((w[1] - 1) * CompleteWords(lg, n, Len(w))) \div (n - 1)

\* one round of the loop of count without states = [0] + states: the words
\* shorter than the rest of the word are not counted without precalculation
PositionTermNoEmptyPrefix(lg, n, precalculate, w, i) ==
    SumOver((IF i = 0 THEN 1 ELSE 0)..(w[i + 1] - 1),
            [sfx \in (IF i = 0 THEN 1 ELSE 0)..(w[i + 1] - 1) |->
                RowSum(DfaOf(lg), IndicesOf(lg, n), Len(w) - 1 - i,
                       GetState(DfaOf(lg), Append(SubSeq(w, 1, i), sfx)))])

\* one round of the loop of count, at position i (from 0): the words that
\* share word[:i] and have a smaller digit at i
PositionTerm(lg, n, precalculate, w, i) ==
    LET dfa == DfaOf(lg)
        indices == IndicesOf(lg, n)
        k == Len(w) - 1 - i
        prefix == SubSeq(w, 1, i)
        suffixes == (IF i = 0 THEN 1 ELSE 0)..(w[i + 1] - 1)
        states == [sfx \in suffixes |-> GetState(dfa, Append(prefix, sfx))]
        smaller == SumOver(suffixes,
                      [sfx \in suffixes |-> RowSum(dfa, indices, k, states[sfx])])
    IN  IF precalculate THEN smaller ELSE RowSum(dfa, indices, k, 0) + smaller

\* DFASideThread.count, from the extracted word on
Count(lg, n, precalculate, w) ==
    LET len == Len(w)
        shorter == IF precalculate
                   THEN SumOver(1..(len - 1),
                                [i \in 1..(len - 1) |-> CompleteWords(lg, n, i)])
                   ELSE 0
        shortcut == IsHomogeneous(lg) /\ precalculate
        positions == (IF shortcut THEN 1 ELSE 0)..(len - 1)
        enumeration ==
            (IF shortcut THEN SmallerLeadingDigit(lg, n, w) ELSE 0)
              + SumOver(positions,
                        [i \in positions |-> PositionTerm(lg, n, precalculate, w, i)])
    IN  shorter + enumeration + (IF WordIsValid(lg, n, w) THEN 1 ELSE 0) - OffsetOf(lg)

\* the next word in (length, digit sequence) order: add one in base n
RECURSIVE NextWordOf(_, _)
NextWordOf(w, n) ==
    IF w = << >> THEN <<1>>
    ELSE IF w[Len(w)] < n - 1 THEN [w EXCEPT ![Len(w)] = @ + 1]
    ELSE LET up == NextWordOf(SubSeq(w, 1, Len(w) - 1), n)
         IN  IF Len(up) = Len(w) THEN [k \in 1..(Len(w) + 1) |-> IF k = 1 THEN 1 ELSE 0]
             ELSE Append(up, 0)

NoWord == [word |-> << >>, cnt |-> 0]

\* count applied to the words of a side thread in their order; prev keeps
\* the last valid word before the current one, with its count
DfaInit ==
    /\ TreeInit /\ HistIdle /\ RestIdle
    /\ lang \in Langs
    /\ base \in Bases
    /\ precalc \in BOOLEAN
    /\ word = <<1>>
    /\ cnt = Count(lang, base, precalc, <<1>>)
    /\ prev = NoWord

CountNext ==
    LET w == NextWordOf(word, base)
    IN  /\ Len(w) <= MaxLenOf(base)
        /\ word' = w
        /\ cnt' = Count(lang, base, precalc, w)
        /\ prev' = IF WordIsValid(lang, base, word)
                   THEN [word |-> word, cnt |-> cnt] ELSE prev
        /\ UNCHANGED <<lang, base, precalc>>

DfaNext == CountNext /\ UNCHANGED <<treeVars, histVars, restVars>>

SpecDFA == DfaInit /\ [][DfaNext]_vars


(***************************************************************************)
(* DFA: the cache of the powers of the transition matrix                   *)
(* A matrix is the tuple of its rows, a row the tuple of its entries:      *)
(* the entry of row i and column j, both from 0, is m[i + 1][j + 1].       *)
(***************************************************************************)
NStates(dfa) == Pow(dfa.n_states, dfa.n_symbols)

States(dfa) == 0..(NStates(dfa) - 1)

\* the tuple <<f[lo], ..., f[hi]>>
RECURSIVE TupleRange(_, _, _)
TupleRange(f, lo, hi) ==
    IF lo > hi THEN << >>
    ELSE IF lo = hi THEN <<f[lo]>>
    ELSE LET mid == (lo + hi) \div 2
         IN  TupleRange(f, lo, mid) \o TupleRange(f, mid + 1, hi)

\* the tuple <<f[1], ..., f[n]>>
AsTuple(f, n) == TupleRange(f, 1, n)

\* scipy.sparse.eye(n_states ** n_symbols)
Eye(dfa) ==
    LET n == NStates(dfa)
    IN  AsTuple([i \in 1..n |-> AsTuple([j \in 1..n |-> IF i = j THEN 1 ELSE 0], n)], n)

\* DFA._generate_transition_matrix: row i holds the weights of _connections(i)
GenerateTransitionMatrix(dfa) ==
    LET n == NStates(dfa)
    IN  AsTuple([i \in 1..n |->
                    LET row == Connections(dfa, i - 1)
                    IN  AsTuple([j \in 1..n |->
                                    IF j - 1 \in DOMAIN row THEN row[j - 1] ELSE 0], n)],
                n)

\* sum(a[k] * b[k][j] for k in lo..hi), a being a row
RECURSIVE DotRange(_, _, _, _, _)
DotRange(a, b, j, lo, hi) ==
    IF lo > hi THEN 0
    ELSE IF lo = hi THEN a[lo] * b[lo][j]
    ELSE LET mid == (lo + hi) \div 2
         IN  DotRange(a, b, j, lo, mid) + DotRange(a, b, j, mid + 1, hi)

Dot(a, b, j, n) == DotRange(a, b, j, 1, n)

\* a * b of two sparse matrices of the same shape: the matrix product
MatMul(a, b) ==
    LET n == Len(a)
    IN  IF Len(b) # n THEN << >>
        ELSE AsTuple([i \in 1..n |-> AsTuple([j \in 1..n |-> Dot(a[i], b, j, n)], n)], n)

\* self.transitions[-1] * self.transitions[-1]
NextPowerSquares(cached, matrix) == MatMul(cached[Len(cached)], cached[Len(cached)])

\* self.transitions[-1] * self.transition_matrix
NextPower(cached, matrix) == MatMul(cached[Len(cached)], matrix)

\* while len(self.transitions) <= i: self.transitions.append(...)
RECURSIVE GrowTo(_, _, _)
GrowTo(cached, matrix, i) ==
    IF Len(cached) <= i
    THEN GrowTo(Append(cached, NextPower(cached, matrix)), matrix, i)
    ELSE cached

MaxIndex == 4

\* DFAs small enough to hold their matrices: one or two symbols, and the
\* two or three states per symbol of dfa_10_2 and dfa_10_3
SmallDfas ==
    {[n_symbols |-> s, n_states |-> q] : s \in {1, 2}, q \in {2, 3}}

NoMatrix == << >>

CacheInit ==
    /\ TreeInit /\ DfaIdle /\ HistIdle
    /\ CountIdle /\ ThreadIdle /\ FetchIdle /\ WalkIdle /\ ParseIdle
    /\ automaton \in SmallDfas
    /\ transitions = <<Eye(automaton)>>
    /\ transition_matrix = NoMatrix
    /\ requested = {}
    /\ returned = NoMatrix

\* DFA.__getitem__
GetItem(i) ==
    /\ transition_matrix' =
           IF transition_matrix = NoMatrix
           THEN GenerateTransitionMatrix(automaton)
           ELSE transition_matrix
    /\ transitions' = GrowTo(transitions, transition_matrix', i)
    /\ returned' = transitions'[i + 1]
    /\ requested' = requested \cup {i}
    /\ UNCHANGED automaton

GetItemCall == \E i \in 0..MaxIndex : GetItem(i)

CacheNext ==
    /\ GetItemCall
    /\ UNCHANGED <<treeVars, dfaVars, histVars>>
    /\ UNCHANGED <<countVars, threadVars, fetchVars, walkVars, parseVars>>

SpecCache == CacheInit /\ [][CacheNext]_vars


(***************************************************************************)
(* Histories and the rules                                                 *)
(* A history is the DataFrame of a chain of comments, oldest first, with   *)
(* the default RangeIndex: row i of the frame is history[i + 1].  A row    *)
(* holds the username, the timestamp in seconds and the count its body     *)
(* reads as.  A boolean Series over the rows is a sequence of booleans.    *)
(***************************************************************************)
MINUTE == 60

HOUR == 3600

\* wait_n = None is written -1
None == 0 - 1

CountingRule(wait_n, thread_time, user_time) ==
    [kind |-> "CountingRule", wait_n |-> wait_n,
     thread_time |-> thread_time, user_time |-> user_time]

default_rule == CountingRule(1, 0, 0)

FastOrSlow == [CountingRule(1, 0, 0) EXCEPT !.kind = "FastOrSlow"]

OnlyDoubleCounting ==
    [kind |-> "OnlyDoubleCounting", wait_n |-> 1, thread_time |-> 0, user_time |-> 0]

Rows(h) == 1..Len(h)

\* groupby("username"): the row before i by the user of row i, 0 if none
PreviousByUser(h, i) ==
    LET earlier == {j \in 1..(i - 1) : h[j].username = h[i].username}
    IN  IF earlier = {} THEN 0 ELSE CHOOSE j \in earlier : \A k \in earlier : k <= j

\* the skip check with skips >= n
ValidSkipAtLeast(r, h) ==
    LET n == IF r.wait_n # None THEN r.wait_n ELSE Len(h)
    IN  [i \in Rows(h) |->
            LET j == PreviousByUser(h, i) IN j = 0 \/ i - j >= n]

ValidSkip(r, h) ==
    LET n == IF r.wait_n # None THEN r.wait_n ELSE Len(h)
    IN  [i \in Rows(h) |->
            LET j == PreviousByUser(h, i) IN j = 0 \/ i - j > n]

\* CountingRule._valid_thread_time; the scalar True of a rule without
\* thread_time is written as the Series it broadcasts to
ValidThreadTime(r, h) ==
    IF r.thread_time = 0
    THEN [i \in Rows(h) |-> TRUE]
    ELSE [i \in Rows(h) |->
            i = 1 \/ h[i].timestamp - h[i - 1].timestamp >= r.thread_time]

\* the user-time check on timestamp.diff() of the whole frame
ValidUserTimeUngrouped(r, h) ==
    IF r.user_time = 0
    THEN [i \in Rows(h) |-> TRUE]
    ELSE [i \in Rows(h) |->
            i = 1 \/ h[i].timestamp - h[i - 1].timestamp >= r.user_time]

ValidUserTime(r, h) ==
    IF r.user_time = 0
    THEN [i \in Rows(h) |-> TRUE]
    ELSE [i \in Rows(h) |->
            LET j == PreviousByUser(h, i)
            IN  j = 0 \/ h[i].timestamp - h[j].timestamp >= r.user_time]

\* CountingRule._valid_thread_time, which no thread_time switches on
ValidThreadTimeInherited(h) == ValidThreadTime(default_rule, h)

\* FastOrSlow._valid_thread_time
FastOrSlowValidThreadTime(h) ==
    [i \in Rows(h) |->
        \/ i = 1
        \/ h[i].timestamp - h[i - 1].timestamp < 5 * MINUTE
        \/ h[i].timestamp - h[i - 1].timestamp >= HOUR]

CountingRuleIsValid(r, h) ==
    LET skip == ValidSkip(r, h)
        thread == IF r.kind = "FastOrSlow"
                  THEN FastOrSlowValidThreadTime(h)
                  ELSE ValidThreadTime(r, h)
        user == ValidUserTime(r, h)
    IN  [i \in Rows(h) |-> skip[i] /\ thread[i] /\ user[i]]

\* iloc[::2]: the rows at positions 0, 2, 4, ...
EveryOtherRow(h) == {i \in Rows(h) : i % 2 = 1}

UpMask(h) ==
    [i \in EveryOtherRow(h) |-> i = Len(h) \/ h[i + 1].username = h[i].username]

DownMask(h) ==
    [i \in EveryOtherRow(h) |-> i = 1 \/ h[i - 1].username = h[i].username]

MaskSum(m) == Cardinality({i \in DOMAIN m : m[i]})

\* up_mask, whatever down_mask sums to
PairMaskForward(h) == UpMask(h)

PairMask(h) ==
    IF MaskSum(UpMask(h)) > MaskSum(DownMask(h)) THEN UpMask(h) ELSE DownMask(h)

\* the Series `mask` itself, which has a row for every other row only
OnlyDoubleCountingPairMask(h) ==
    [k \in 1..Cardinality(EveryOtherRow(h)) |-> PairMask(h)[2 * k - 1]]

\* history["mask"]: True, overwritten by `mask` on the rows of its index
OnlyDoubleCountingIsValid(h) ==
    [i \in Rows(h) |-> IF i \in DOMAIN PairMask(h) THEN PairMask(h)[i] ELSE TRUE]

IsValid(r, h) ==
    IF r.kind = "OnlyDoubleCounting"
    THEN OnlyDoubleCountingIsValid(h)
    ELSE CountingRuleIsValid(r, h)

(***************************************************************************)
(* SideThread.find_errors                                                  *)
(***************************************************************************)
Counts(h) == [i \in Rows(h) |-> h[i].body]

\* counts - counts.iloc[0] != counts.index
OffTrack(c) == [i \in DOMAIN c |-> c[i] - c[1] # i - 1]

\* errors.where(~errors).last_valid_index(), as a row; 0 for None
LastOnTrack(e) ==
    LET onTrack == {i \in DOMAIN e : ~e[i]}
    IN  IF onTrack = {} THEN 0 ELSE CHOOSE i \in onTrack : \A k \in onTrack : k <= i

\* errors, with no row set to False
ErrorsAllKept(e) == e

\* errors[:last_valid_index] = False; the slice stops before the row
\* itself, and [:None] is every row
ErrorsAfterLastOnTrack(e) ==
    LET last_on_track == LastOnTrack(e)
    IN  [i \in DOMAIN e |->
            IF last_on_track = 0 \/ i < last_on_track THEN FALSE ELSE e[i]]


\* counts.diff(k) != k, if a missing difference counted as equal to k
DiffIsNotWhenKnown(c, i, k) == i > k /\ c[i] - c[i - k] # k

\* counts.diff(k) != k; a missing difference is not equal to k
DiffIsNot(c, i, k) == i <= k \/ c[i] - c[i - k] # k

FindErrorsMask(h) ==
    LET counts == Counts(h)
        errors == ErrorsAfterLastOnTrack(OffTrack(counts))
    IN  [i \in Rows(h) |->
            errors[i] /\ DiffIsNot(counts, i, 1) /\ DiffIsNot(counts, i, 2)]

(***************************************************************************)
(* The rules and find_errors as actions.  Post is the thread growing by a  *)
(* comment; the calls leave the boolean Series they return in mask.        *)
(***************************************************************************)
Users == {"A", "B", "C"}

MaxTimed == 3

MaxPairs == 6

MaxCounts == 5

MaxCount == 6

Delays == {30, 4 * MINUTE, 5 * MINUTE, 10 * MINUTE, HOUR, 2 * HOUR}

Rules ==
    {default_rule, FastOrSlow, OnlyDoubleCounting,
     CountingRule(None, 0, 0), CountingRule(2, 0, 0),
     CountingRule(1, MINUTE, 0), CountingRule(1, 0, HOUR)}

NoMask == << >>

LastTimestamp(h) == IF h = << >> THEN 0 ELSE h[Len(h)].timestamp

Post(user, delay, count) ==
    /\ history' = Append(history, [username |-> user,
                                   timestamp |-> LastTimestamp(history) + delay,
                                   body |-> count])
    /\ mask' = NoMask
    /\ UNCHANGED rule

IsValidCall ==
    /\ history # << >>
    /\ mask' = IsValid(rule, history)
    /\ UNCHANGED <<history, rule>>

FindErrorsCall ==
    /\ history # << >>
    /\ mask' = FindErrorsMask(history)
    /\ UNCHANGED <<history, rule>>

PostTimed ==
    /\ Len(history) < MaxTimed
    /\ \E user \in {"A", "B"}, delay \in Delays : Post(user, delay, Len(history) + 1)

RulesInit ==
    /\ TreeInit /\ DfaIdle /\ RestIdle
    /\ history = << >> /\ mask = NoMask /\ rule \in Rules

RulesNext == (PostTimed \/ IsValidCall) /\ UNCHANGED <<treeVars, dfaVars, restVars>>

SpecRules == RulesInit /\ [][RulesNext]_vars

PostPaired ==
    /\ Len(history) < MaxPairs
    /\ \E user \in Users : Post(user, MINUTE, Len(history) + 1)

PairsInit ==
    /\ TreeInit /\ DfaIdle /\ RestIdle
    /\ history = << >> /\ mask = NoMask /\ rule = OnlyDoubleCounting

PairsNext == (PostPaired \/ IsValidCall) /\ UNCHANGED <<treeVars, dfaVars, restVars>>

SpecPairs == PairsInit /\ [][PairsNext]_vars

PostCount ==
    /\ Len(history) < MaxCounts
    /\ \E count \in 1..MaxCount : Post("A", MINUTE, count)

ErrorsInit ==
    /\ TreeInit /\ DfaIdle /\ RestIdle
    /\ history = << >> /\ mask = NoMask /\ rule = default_rule

ErrorsNext == (PostCount \/ FindErrorsCall) /\ UNCHANGED <<treeVars, dfaVars, restVars>>

SpecErrors == ErrorsInit /\ [][ErrorsNext]_vars

(***************************************************************************)
(* SideThread.is_valid_count                                               *)
(* A comment is the row comment_to_dict makes of it.  A format predicate   *)
(* is the set of the bodies it accepts.                                    *)
(***************************************************************************)
Bodies == {"12", "[deleted]", "twelve"}

\* utils.deleted_phrases
deleted_phrases == {"[deleted]", "[removed]"}

\* validate_form.permissive and validate_form.base_10
permissive == Bodies

base_10 == {"12"}

\* counters.is_ignored_counter
IgnoredCounters == {"C"}

is_ignored_counter(author) == author \in IgnoredCounters

\* SideThread.is_valid_thread(history)[0]: mask.all()
IsValidThread(r, h) == \A i \in Rows(h) : IsValid(r, h)[i]

LooksLikeCount(f, comment) == comment.body \in deleted_phrases \/ comment.body \in f

\* is_valid_count, if it gave the history back as it came when the
\* verdict is False
IsValidCountKeepsOnReject(r, f, comment, h) ==
    LET appended == Append(h, comment)
        valid == /\ IsValidThread(r, appended)
                 /\ LooksLikeCount(f, comment)
                 /\ ~is_ignored_counter(comment.username)
    IN  [verdict |-> valid, history |-> IF valid THEN appended ELSE h]

\* SideThread.is_valid_count: the pair it returns
IsValidCount(r, f, comment, h) ==
    LET appended == Append(h, comment)
        valid_history == IsValidThread(r, appended)
        valid_count == LooksLikeCount(f, comment)
        valid_user == ~is_ignored_counter(comment.username)
    IN  [verdict |-> valid_history /\ valid_count /\ valid_user,
         history |-> appended]

MaxPosts == 2

\* the caller goes on with the history it got back
IsValidCountCall ==
    /\ Len(history) < MaxPosts
    /\ \E user \in Users, delay \in {4 * MINUTE, 10 * MINUTE}, body \in Bodies :
          LET comment == [username |-> user,
                          timestamp |-> LastTimestamp(history) + delay,
                          body |-> body]
              result == IsValidCount(rule, form, comment, history)
          IN  /\ post' = comment
              /\ verdict' = result.verdict
              /\ history' = result.history
              /\ mask' = IsValid(rule, result.history)
    /\ UNCHANGED <<rule, form>>

CountsInit ==
    /\ TreeInit /\ DfaIdle
    /\ CacheIdle /\ ThreadIdle /\ FetchIdle /\ WalkIdle /\ ParseIdle
    /\ history = << >> /\ mask = NoMask /\ rule \in Rules
    /\ form \in {permissive, base_10}
    /\ post = << >>
    /\ verdict = FALSE

CountsNext ==
    /\ IsValidCountCall
    /\ UNCHANGED <<treeVars, dfaVars>>
    /\ UNCHANGED <<cacheVars, threadVars, fetchVars, walkVars, parseVars>>

SpecCounts == CountsInit /\ [][CountsNext]_vars


(***************************************************************************)
(* SideThread: the construction and update_count                           *)
(* A SideThread is recorded by what it was constructed with (whether a     *)
(* comment_to_count and an update_function were given, and the length or   *)
(* None) and by the update_count it ended up with.  A submission of a      *)
(* chain is the count its title reads as and the number of its comments.   *)
(***************************************************************************)
DefaultLength == 1000

\* SideThread.__init__, with the three ifs taken in the opposite order
UpdateCountExtractorFirst(comment_to_count, update_function, length) ==
    IF comment_to_count THEN "title_updater"
    ELSE IF update_function THEN "update_function"
    ELSE "update_from_length"

\* SideThread.__init__: the three ifs in turn, a later one overwriting
\* what an earlier one set
UpdateCountOf(comment_to_count, update_function, length) ==
    LET first == IF comment_to_count THEN "title_updater" ELSE "unset"
        second == IF update_function THEN "update_function" ELSE first
    IN  IF length # None \/ (~comment_to_count /\ ~update_function)
        THEN "update_from_length"
        ELSE second

\* self.length, None where __init__ does not set it
LengthOf(comment_to_count, update_function, length) ==
    IF length # None \/ (~comment_to_count /\ ~update_function)
    THEN (IF length # None THEN length ELSE DefaultLength)
    ELSE None

SideThread(comment_to_count, update_function, length) ==
    [comment_to_count |-> comment_to_count,
     update_function |-> update_function,
     given_length |-> length,
     length |-> LengthOf(comment_to_count, update_function, length),
     update_count |-> UpdateCountOf(comment_to_count, update_function, length)]

\* ignore_revivals; was_revival = None is written << >>
RECURSIVE NotRevived(_, _, _)
NotRevived(chain, was_revival, i) ==
    IF i > Len(chain) \/ i > Len(was_revival) THEN << >>
    ELSE (IF was_revival[i] THEN << >> ELSE <<chain[i]>>)
             \o NotRevived(chain, was_revival, i + 1)

IgnoreRevivals(chain, was_revival) ==
    IF was_revival = << >> THEN chain ELSE NotRevived(chain, was_revival, 1)

Returned(value) == [raised |-> "", value |-> value]

Raised(exception) == [raised |-> exception, value |-> 0]

\* make_title_updater: the count of the title of the last submission
TitleUpdater(old_count, chain, was_revival) ==
    LET live == IgnoreRevivals(chain, was_revival)
    IN  IF live = << >> THEN Raised("IndexError")
        ELSE Returned(live[Len(live)].title_count)

\* update_from_traversal, an update_function: the comments of chain[1:]
RECURSIVE CommentsOf(_, _)
CommentsOf(chain, from) ==
    IF from > Len(chain) THEN 0 ELSE chain[from].comments + CommentsOf(chain, from + 1)

UpdateFromTraversal(old_count, chain, was_revival) ==
    Returned(old_count + CommentsOf(chain, 2))

\* update_from_length without the [1:]: every post left counts
UpdateFromLengthWholeChain(thread, old_count, chain, was_revival) ==
    IF thread.length # None
    THEN Returned(old_count + thread.length * Len(IgnoreRevivals(chain, was_revival)))
    ELSE Returned(None)

\* SideThread.update_from_length
UpdateFromLength(thread, old_count, chain, was_revival) ==
    LET live == IgnoreRevivals(chain, was_revival)
    IN  IF thread.length # None
        THEN Returned(old_count + thread.length * (IF live = << >> THEN 0 ELSE Len(live) - 1))
        ELSE Returned(None)

UpdateCount(thread, old_count, chain, was_revival) ==
    IF thread.update_count = "title_updater"
    THEN TitleUpdater(old_count, chain, was_revival)
    ELSE IF thread.update_count = "update_function"
    THEN UpdateFromTraversal(old_count, chain, was_revival)
    ELSE UpdateFromLength(thread, old_count, chain, was_revival)

MaxChain == 2

Submissions ==
    {[title_count |-> 1000, comments |-> 3], [title_count |-> 2000, comments |-> 5]}

Chains == UNION {[1..n -> Submissions] : n \in 1..MaxChain}

Revivals(chain) == {<< >>} \cup [1..Len(chain) -> BOOLEAN]

NoUpdate == [old_count |-> 0, chain |-> << >>, was_revival |-> << >>, result |-> Returned(0)]

ThreadsInit ==
    /\ TreeInit /\ DfaIdle /\ HistIdle
    /\ CacheIdle /\ CountIdle /\ FetchIdle /\ WalkIdle /\ ParseIdle
    /\ \E comment_to_count \in BOOLEAN, update_function \in BOOLEAN,
          length \in {None, 500} :
          side_thread = SideThread(comment_to_count, update_function, length)
    /\ updated = NoUpdate

UpdateCountCall ==
    /\ \E old_count \in {0, 4000}, chain \in Chains :
          \E was_revival \in Revivals(chain) :
              updated' = [old_count |-> old_count, chain |-> chain,
                          was_revival |-> was_revival,
                          result |-> UpdateCount(side_thread, old_count, chain, was_revival)]
    /\ UNCHANGED side_thread

ThreadsNext ==
    /\ UpdateCountCall
    /\ UNCHANGED <<treeVars, dfaVars, histVars>>
    /\ UNCHANGED <<cacheVars, countVars, fetchVars, walkVars, parseVars>>

SpecThreads == ThreadsInit /\ [][ThreadsNext]_vars


(***************************************************************************)
(* CommentTree: the requests to the source                                 *)
(* reddit.comment(id) makes a lazy comment; reading is_root of a lazy      *)
(* comment fetches it (one request), refresh() is one more request and     *)
(* brings the ancestors along, so that parent() needs none.  A request in  *)
(* failing raises.  The run of a call is the record of the maps, the       *)
(* request counts and the exception that left the call, "none" if none.    *)
(***************************************************************************)
Run(ns, tr, rq, raised) == [nodes |-> ns, tree |-> tr, requests |-> rq, raised |-> raised]

Bump(rq, id) == [rq EXCEPT ![id] = @ + 1]

\* the loop of add_missing_parents after a refresh that failed: every
\* ancestor is a lazy comment, fetched when its is_root is read
RECURSIVE ClimbLazily(_, _, _, _, _)
ClimbLazily(rq, fl, id, comments, k) ==
    IF k = 0 THEN [comments |-> comments, requests |-> rq, raised |-> "none"]
    ELSE IF IsRootComment(id)
    THEN [comments |-> comments \cup {id}, requests |-> rq, raised |-> "none"]
    ELSE LET up == SourceParent(id)
         IN  IF k = 1
             THEN [comments |-> comments \cup {id}, requests |-> rq, raised |-> "none"]
             ELSE IF <<"fetch", up>> \in fl
             THEN [comments |-> comments \cup {id, up}, requests |-> Bump(rq, up),
                   raised |-> "ServerError"]
             ELSE ClimbLazily(Bump(rq, up), fl, up, comments \cup {id}, k - 1)

\* CommentTree.add_missing_parents
AddMissingParentsRun(ns, tr, rq, fl, id) ==
    LET fetched == Bump(rq, id)
        refreshed == Bump(fetched, id)
    IN  IF <<"fetch", id>> \in fl THEN Run(ns, tr, fetched, "ServerError")
        ELSE IF IsRootComment(id)
        THEN LET r == AddCommentsResult(ns, tr, {id})
             IN  Run(r.nodes, r.tree, fetched, "none")
        ELSE IF <<"refresh", id>> \notin fl
        THEN LET r == AddCommentsResult(ns, tr, AncestorChain(id, FetchChain))
             IN  Run(r.nodes, r.tree, refreshed, "none")
        ELSE LET climb == ClimbLazily(refreshed, fl, id, {}, FetchChain)
                 r == AddCommentsResult(ns, tr, climb.comments)
             IN  IF climb.raised # "none"
                 THEN Run(ns, tr, climb.requests, climb.raised)
                 ELSE Run(r.nodes, r.tree, climb.requests, "none")

\* Tree.node on the maps of a run
Lookup1(run, id) ==
    IF run.raised # "none" \/ id \in run.nodes THEN run
    ELSE [run EXCEPT !.raised = "KeyError"]

\* CommentTree.node; reddit tells whether the tree has a source
NodeRun(ns, tr, rq, fl, reddit, id) ==
    IF id \notin DOMAIN tr /\ reddit
    THEN Lookup1(AddMissingParentsRun(ns, tr, rq, fl, id), id)
    ELSE Lookup1(Run(ns, tr, rq, "none"), id)

\* CommentTree.parent
ParentRun(ns, tr, rq, fl, reddit, id) ==
    IF id \notin DOMAIN tr THEN Run(ns, tr, rq, "KeyError")
    ELSE NodeRun(ns, tr, rq, fl, reddit, tr[id])

\* CommentTree.add_missing_replies
AddMissingRepliesRun(ns, tr, rq, fl, id) ==
    LET own == IF id \notin ns THEN AddCommentsResult(ns, tr, {id})
                               ELSE [nodes |-> ns, tree |-> tr]
        refreshed == Bump(rq, id)
        replies == SourceReplies(id)
        r == AddCommentsResult(own.nodes, own.tree, replies)
    IN  IF <<"refresh", id>> \in fl
        THEN Run(own.nodes, own.tree, refreshed, "ServerError")
        ELSE IF replies # {} THEN Run(r.nodes, r.tree, refreshed, "none")
        ELSE Run(own.nodes, own.tree, refreshed, "none")

\* CommentTree.find_children: the children known are looked up, and the
\* replies are asked for when none is known
FindChildrenRun(ns, tr, rq, fl, reddit, id) ==
    LET children == ReversedTree(tr, id)
    IN  IF children # {}
        THEN Run(ns, tr, rq, IF children \subseteq ns THEN "none" ELSE "KeyError")
        ELSE IF ~reddit THEN Run(ns, tr, rq, "none")
        ELSE IF id \notin ns THEN Run(ns, tr, rq, "AttributeError")
        ELSE AddMissingRepliesRun(ns, tr, rq, fl, id)

\* what a walk gave: a list, None, an exception, or no end at all
Walk(id, limit, outcome, result) ==
    [node |-> id, limit |-> limit, outcome |-> outcome, result |-> result]

MaxLimit == 2
Limits == {None} \cup (0..MaxLimit)

\* the while loop of Tree.walk_up_tree; fuel bounds the steps, a walk that
\* uses it up is on a cycle and never ends
RECURSIVE WalkUpLoop(_, _, _, _, _, _, _)
WalkUpLoop(run, fl, reddit, cur, walk, limit, fuel) ==
    IF cur \notin DOMAIN run.tree \/ IsRootComment(cur)
    THEN [run |-> run, outcome |-> "list", result |-> walk]
    ELSE IF limit # None /\ Len(walk) >= limit
    THEN [run |-> run, outcome |-> "list", result |-> walk]
    ELSE IF fuel = 0
    THEN [run |-> run, outcome |-> "diverges", result |-> walk]
    ELSE LET up == ParentRun(run.nodes, run.tree, run.requests, fl, reddit, cur)
         IN  IF up.raised # "none"
             THEN [run |-> up, outcome |-> up.raised, result |-> walk]
             ELSE WalkUpLoop(up, fl, reddit, run.tree[cur],
                             Append(walk, run.tree[cur]), limit, fuel - 1)

\* Tree.walk_up_tree, handed an id
WalkUpTree(ns, tr, rq, fl, reddit, id, limit) ==
    LET first == NodeRun(ns, tr, rq, fl, reddit, id)
    IN  IF first.raised = "KeyError"
        THEN [run |-> [first EXCEPT !.raised = "none"], outcome |-> "None", result |-> << >>]
        ELSE IF first.raised # "none"
        THEN [run |-> first, outcome |-> first.raised, result |-> << >>]
        ELSE IF id \notin DOMAIN first.tree /\ id \notin first.nodes
        THEN [run |-> first, outcome |-> "None", result |-> << >>]
        ELSE WalkUpLoop(first, fl, reddit, id, <<id>>, limit, NIds + 1)

(***************************************************************************)
(* The calls on a CommentTree that starts empty and has a source           *)
(***************************************************************************)
MaxRequests == 3
NoWalk == << >>

\* a call leaves its maps and request counts behind, however it ends
Leaves(run, op) ==
    /\ \A c \in Ids : run.requests[c] <= MaxRequests
    /\ nodes' = run.nodes
    /\ tree' = run.tree
    /\ requests' = run.requests
    /\ last' = Called(op, run.raised, {})
    /\ UNCHANGED <<depths, failing>>

NodeFetch(id) ==
    /\ Leaves(NodeRun(nodes, tree, requests, failing, TRUE, id), "node")
    /\ UNCHANGED walkVars

ParentFetch(id) ==
    /\ Leaves(ParentRun(nodes, tree, requests, failing, TRUE, id), "parent")
    /\ UNCHANGED walkVars

FindChildrenFetch(id) ==
    /\ Leaves(FindChildrenRun(nodes, tree, requests, failing, TRUE, id), "find_children")
    /\ UNCHANGED walkVars

WalkUpTreeFetch(id, limit) ==
    LET w == WalkUpTree(nodes, tree, requests, failing, TRUE, id, limit)
    IN  /\ Leaves([w.run EXCEPT !.raised =
                      IF w.outcome \in {"list", "None"} THEN "none" ELSE w.outcome],
                  "walk_up_tree")
        /\ walked' = Walk(id, limit, w.outcome, w.result)
        /\ UNCHANGED <<order, created_utc, comment_body, comment_tree, answer, comment_author>>

\* the requests that fail: none, or one
Failures == {{}} \cup {{<<k, c>>} : k \in {"fetch", "refresh"}, c \in Ids}

FetchInit ==
    /\ TreeInit /\ DfaIdle /\ HistIdle /\ CacheIdle /\ CountIdle /\ ThreadIdle
    /\ WalkIdle /\ ParseIdle
    /\ requests = [c \in Ids |-> 0]
    /\ failing \in Failures

FetchNext ==
    \/ (\E id \in Ids : NodeFetch(id))
          /\ UNCHANGED <<dfaVars, histVars, cacheVars, countVars, threadVars, parseVars>>
    \/ (\E id \in Ids : ParentFetch(id))
          /\ UNCHANGED <<dfaVars, histVars, cacheVars, countVars, threadVars, parseVars>>
    \/ (\E id \in Ids : FindChildrenFetch(id))
          /\ UNCHANGED <<dfaVars, histVars, cacheVars, countVars, threadVars, parseVars>>
    \/ (\E id \in Ids, limit \in Limits : WalkUpTreeFetch(id, limit))
          /\ UNCHANGED <<dfaVars, histVars, cacheVars, countVars, threadVars, parseVars>>

SpecFetch == FetchInit /\ [][FetchNext]_vars


(***************************************************************************)
(* Walks on a tree without a source                                        *)
(***************************************************************************)
WalkUpTreeCall(id, limit) ==
    LET w == WalkUpTree(nodes, tree, requests, failing, FALSE, id, limit)
    IN  /\ walked' = Walk(id, limit, w.outcome, w.result)
        /\ last' = Called("walk_up_tree",
                          IF w.outcome \in {"list", "None"} THEN "none" ELSE w.outcome, {})
        /\ UNCHANGED <<nodes, tree, depths>>
        /\ UNCHANGED <<order, created_utc, comment_body, comment_tree, answer, comment_author>>

WalkNext ==
    \/ AddCommentsCall /\ UNCHANGED <<dfaVars, histVars, restVars>>
    \/ DeleteNodeCall /\ UNCHANGED <<dfaVars, histVars, restVars>>
    \/ (\E id \in Ids, limit \in Limits : WalkUpTreeCall(id, limit))
          /\ UNCHANGED <<dfaVars, histVars, cacheVars, countVars, threadVars,
                         fetchVars, parseVars>>

WalkInit == TreeInit /\ DfaIdle /\ HistIdle /\ RestIdle

SpecWalk == WalkInit /\ [][WalkNext]_vars

\* the elements of a list
Elements(s) == {s[k] : k \in DOMAIN s}

\* dict.update with the comments of a list of one: a new key goes to the end,
\* a key the dict has keeps its place
OrderAfterAdd(ord, c) ==
    IF IsRootComment(c) \/ c \in Elements(ord) THEN ord ELSE Append(ord, c)

\* del self.tree[node_id]
OrderAfterDel(ord, n) == SelectSeq(ord, LAMBDA c : c # n)

\* self.reversed_tree[id]: the children in the order of the parent map
ChildrenInOrder(tr, ord, id) ==
    SelectSeq(ord, LAMBDA c : c \in DOMAIN tr /\ tr[c] = id)

\* sorted(s, key=...): stable, equal keys keep their order
RECURSIVE Sorted(_, _)
Sorted(s, key) ==
    IF s = << >> THEN << >>
    ELSE LET x == s[Len(s)]
             front == Sorted(SubSeq(s, 1, Len(s) - 1), key)
         IN  SelectSeq(front, LAMBDA e : key[e] <= key[x]) \o <<x>>
                \o SelectSeq(front, LAMBDA e : key[e] > key[x])

\* x.body in utils.deleted_phrases as a sort key: False before True
DeletedKey(bd) == [c \in DOMAIN bd |-> IF bd[c] \in deleted_phrases THEN 1 ELSE 0]

\* the children by date only
FindChildrenByDate(tr, ord, ct, cr, bd, id) ==
    IF ct THEN Sorted(ChildrenInOrder(tr, ord, id), cr)
    ELSE ChildrenInOrder(tr, ord, id)

\* Tree.find_children and CommentTree.find_children, once the nodes of the
\* children are found
FindChildren(tr, ord, ct, cr, bd, id) ==
    IF ct THEN Sorted(Sorted(ChildrenInOrder(tr, ord, id), cr), DeletedKey(bd))
    ELSE ChildrenInOrder(tr, ord, id)

\* the while loop of Tree.walk_down_tree
RECURSIVE WalkDownLoop(_, _, _, _, _, _, _, _, _)
WalkDownLoop(ns, tr, ord, ct, cr, bd, cur, walk, fuel) ==
    LET children == FindChildren(tr, ord, ct, cr, bd, cur)
    IN  IF ReversedTree(tr, cur) = {}
        THEN [outcome |-> "list", result |-> walk]
        ELSE IF fuel = 0 THEN [outcome |-> "diverges", result |-> walk]
        ELSE IF ~(Elements(children) \subseteq ns)
        THEN [outcome |-> "KeyError", result |-> walk]
        ELSE WalkDownLoop(ns, tr, ord, ct, cr, bd, children[1],
                          Append(walk, children[1]), fuel - 1)

\* Tree.walk_down_tree, handed an id; the limit is not looked at
WalkDownTree(ns, tr, ord, ct, cr, bd, id, limit) ==
    IF id \notin ns THEN [outcome |-> "KeyError", result |-> << >>]
    ELSE WalkDownLoop(ns, tr, ord, ct, cr, bd, id, <<id>>, NIds + 1)

Times == {1, 2}
CommentBodies == {"12", "[deleted]"}

AddCommentsDown(c) ==
    LET r == AddCommentsResult(nodes, tree, {c})
    IN  /\ nodes' = r.nodes
        /\ tree' = r.tree
        /\ order' = OrderAfterAdd(order, c)
        /\ last' = Called("add_comments", "none", {})
        /\ UNCHANGED <<depths, walked, created_utc, comment_body, comment_tree, answer, comment_author>>

DeleteNodeDown(n) ==
    LET r == DeleteNodeResult(nodes, tree, n)
    IN  /\ nodes' = r.nodes
        /\ tree' = r.tree
        /\ order' = IF r.raised = "none" THEN OrderAfterDel(order, n) ELSE order
        /\ last' = Called("delete_node", r.raised, nodes \ r.nodes)
        /\ UNCHANGED <<depths, walked, created_utc, comment_body, comment_tree, answer, comment_author>>

WalkDownTreeCall(id, limit) ==
    LET w == WalkDownTree(nodes, tree, order, comment_tree, created_utc, comment_body, id, limit)
    IN  /\ walked' = Walk(id, limit, w.outcome, w.result)
        /\ last' = Called("walk_down_tree",
                          IF w.outcome = "list" THEN "none" ELSE w.outcome, {})
        /\ UNCHANGED <<nodes, tree, depths>>
        /\ UNCHANGED <<order, created_utc, comment_body, comment_tree, answer, comment_author>>

DownInit ==
    /\ TreeInit /\ DfaIdle /\ HistIdle /\ CacheIdle /\ CountIdle /\ ThreadIdle
    /\ FetchIdle /\ ParseIdle
    /\ walked = NoWalk
    /\ order = << >>
    /\ created_utc \in [Ids -> Times]
    /\ comment_body \in [Ids -> CommentBodies]
    /\ comment_tree \in BOOLEAN
    /\ answer = << >>
    /\ comment_author = << >>

\* The tree is built and then walked: no add_comments or delete_node call
\* follows the first walk.
DownNext ==
    \/ walked = NoWalk /\ (\E c \in Ids : AddCommentsDown(c))
          /\ UNCHANGED <<dfaVars, histVars, cacheVars, countVars, threadVars,
                         fetchVars, parseVars>>
    \/ walked = NoWalk /\ (\E n \in Ids : DeleteNodeDown(n))
          /\ UNCHANGED <<dfaVars, histVars, cacheVars, countVars, threadVars,
                         fetchVars, parseVars>>
    \/ (\E id \in Ids, limit \in {None, 1} : WalkDownTreeCall(id, limit))
          /\ UNCHANGED <<dfaVars, histVars, cacheVars, countVars, threadVars,
                         fetchVars, parseVars>>

SpecDown == DownInit /\ [][DownNext]_vars


(***************************************************************************)
(* parsing.find_count_in_text                                              *)
(* A body is a sequence of characters.                                     *)
(***************************************************************************)
\* \d
Digits == {"0", "7"}

\* the separators without the space
SeparatorsNoSpace == {",", ".", "*", "/"}

\* the characters the group takes besides the digits, and translate removes
Separators == {",", " ", ".", "*", "/"}

\* [\d, \.\*/]
CountChars == Digits \cup Separators

\* the characters of the bodies tried
Chars == {"0", "7", "x", " ", ",", ".", "/", "*"}

DigitValue(c) == IF c = "7" THEN 7 ELSE 0

\* ^[^\d]*: the body after its leading non-digits
RECURSIVE SkipNonDigits(_)
SkipNonDigits(s) ==
    IF s = << >> \/ s[1] \in Digits THEN s ELSE SkipNonDigits(Tail(s))

\* ([\d, \.\*/]*): the longest run of digits and separators at the start
RECURSIVE TakeCount(_)
TakeCount(s) ==
    IF s = << >> \/ s[1] \notin CountChars THEN << >>
    ELSE <<s[1]>> \o TakeCount(Tail(s))

\* count.translate(str.maketrans('', '', ' ,.*/'))
Translate(s) == SelectSeq(s, LAMBDA c : c \notin Separators)

\* int() of a string of digits
RECURSIVE IntOf(_)
IntOf(s) ==
    IF s = << >> THEN 0
    ELSE 10 * IntOf(SubSeq(s, 1, Len(s) - 1)) + DigitValue(s[Len(s)])

\* find_count_in_text: int('') raises ValueError, which is raised again
\* with the body in its message
FindCountInText(b) ==
    LET count == TakeCount(SkipNonDigits(b))
        stripped_count == Translate(count)
    IN  IF stripped_count = << >> THEN Raised("ValueError")
        ELSE Returned(IntOf(stripped_count))

MaxText == 4

RECURSIVE TextsOf(_)
TextsOf(n) ==
    IF n = 0 THEN {<< >>}
    ELSE LET shorter == TextsOf(n - 1)
         IN  shorter \cup {Append(s, c) : s \in {t \in shorter : Len(t) = n - 1}, c \in Chars}

NotParsed == [raised |-> "not called", value |-> 0]

ParseInit ==
    /\ TreeInit /\ DfaIdle /\ HistIdle /\ CacheIdle /\ CountIdle /\ ThreadIdle
    /\ FetchIdle /\ WalkIdle
    /\ text \in TextsOf(MaxText)
    /\ parsed = NotParsed

FindCountInTextCall ==
    /\ parsed' = FindCountInText(text)
    /\ UNCHANGED text

ParseNext ==
    FindCountInTextCall
        /\ UNCHANGED <<treeVars, dfaVars, histVars, cacheVars, countVars,
                       threadVars, fetchVars, walkVars>>

SpecParse == ParseInit /\ [][ParseNext]_vars


(***************************************************************************)
(* Queries between the edits of a tree                                     *)
(***************************************************************************)
\* what a query gave: the value returned, or the exception raised
Answer(op, arg, value, raised) ==
    [op |-> op, arg |-> arg, value |-> value, raised |-> raised]

FindDepthQuery(id) ==
    LET r == FindDepth(nodes, tree, depths, id)
    IN  /\ depths' = r.cache
        /\ last' = Called("find_depth", r.raised, {})
        /\ answer' = Answer("find_depth", id, r.val, r.raised)
        /\ UNCHANGED <<nodes, tree>>
        /\ UNCHANGED <<walked, order, created_utc, comment_body, comment_tree, comment_author>>

EditInit == TreeInit /\ DfaIdle /\ HistIdle /\ RestIdle

EditNext ==
    \/ AddNodesCall /\ UNCHANGED <<dfaVars, histVars, restVars>>
    \/ DeleteNodeCall /\ UNCHANGED <<dfaVars, histVars, restVars>>
    \/ DeleteSubtreeCall /\ UNCHANGED <<dfaVars, histVars, restVars>>
    \/ (\E id \in Ids : FindDepthQuery(id))
          /\ UNCHANGED <<dfaVars, histVars, cacheVars, countVars, threadVars,
                         fetchVars, parseVars>>

SpecEdit == EditInit /\ [][EditNext]_vars


(***************************************************************************)
(* complete_words of the three side threads, in every base of up to        *)
(* NSymbols digits                                                         *)
(***************************************************************************)
MaxWordLen == 3

CompleteWordsCall ==
    /\ \E k \in 1..MaxWordLen :
          answer' = Answer("complete_words", k, CompleteWords(lang, base, k), "none")
    /\ UNCHANGED <<lang, base, precalc, word, cnt, prev>>
    /\ UNCHANGED <<walked, order, created_utc, comment_body, comment_tree, comment_author>>

WordsInit ==
    /\ TreeInit /\ HistIdle /\ RestIdle
    /\ lang \in Langs
    /\ base \in 2..NSymbols
    /\ precalc = TRUE
    /\ word = << >>
    /\ cnt = 0
    /\ prev = NoWord

WordsNext ==
    /\ CompleteWordsCall
    /\ UNCHANGED <<treeVars, histVars>>
    /\ UNCHANGED <<cacheVars, countVars, threadVars, fetchVars, parseVars>>

SpecWords == WordsInit /\ [][WordsNext]_vars


(***************************************************************************)
(* Tree.deepest_node                                                       *)
(***************************************************************************)
\* Tree.leaves: the ids with a node entry that are the parent of nothing
leaves(ns, tr) == ns \ DictValues(tr)

RECURSIVE DeepestLoop(_, _, _, _, _, _)
\* one round of the loop of deepest_node, depth being find_depth(leaf)
DeepestStep(depth, ns, tr, todo, max_depth, result) ==
    IF depth.raised # "none" THEN depth
    ELSE IF depth.val > max_depth
    THEN DeepestLoop(ns, tr, depth.cache, Tail(todo), depth.val, Head(todo))
    ELSE DeepestLoop(ns, tr, depth.cache, Tail(todo), max_depth, result)

\* the loop of deepest_node over the leaves still to do: [val, raised, cache]
DeepestLoop(ns, tr, cache, todo, max_depth, result) ==
    IF todo = << >> THEN [val |-> result, raised |-> "none", cache |-> cache]
    ELSE DeepestStep(FindDepth(ns, tr, cache, Head(todo)), ns, tr, todo, max_depth, result)

\* Tree.deepest_node: the leaves come in the order of a Python set, which
\* the model leaves open; max_depth starts at 0 and result at None
DeepestNode(ns, tr, cache) ==
    {DeepestLoop(ns, tr, cache, o, 0, None) : o \in Orders(leaves(ns, tr))}

DeepestNodeQuery ==
    /\ \E r \in DeepestNode(nodes, tree, depths) :
          /\ depths' = r.cache
          /\ last' = Called("deepest_node", r.raised, {})
          /\ answer' = Answer("deepest_node", << >>, r.val, r.raised)
    /\ UNCHANGED <<nodes, tree>>
    /\ UNCHANGED <<walked, order, created_utc, comment_body, comment_tree, comment_author>>

\* a forest is built with add_nodes and then asked for its deepest node
DeepestNext ==
    \/ depths = EmptyDict /\ AddNodesCall /\ UNCHANGED <<dfaVars, histVars, restVars>>
    \/ DeepestNodeQuery
          /\ UNCHANGED <<dfaVars, histVars, cacheVars, countVars, threadVars,
                         fetchVars, parseVars>>

SpecDeepest == EditInit /\ [][DeepestNext]_vars


(***************************************************************************)
(* CountingRule.get_history                                                *)
(* The comments of a thread are a chain held by a tree without a source:   *)
(* comment 1 is the root comment, comment i + 1 the reply to comment i.    *)
(***************************************************************************)
\* walk_up_tree(limit=9): how many comments one extension of the history asks for
HistoryChunk == 9

Reversed(s) == [k \in 1..Len(s) |-> s[Len(s) + 1 - k]]

Max(a, b) == IF a > b THEN a ELSE b

\* the while loop of get_history: the walk is extended from its last comment
\* while that is no root comment and is less than max_time older than the
\* comment asked about; a walk that cannot climb goes round for ever
RECURSIVE ExtendHistory(_, _, _, _, _, _, _)
ExtendHistory(ns, tr, cr, comment, comments, max_time, fuel) ==
    LET oldest == comments[Len(comments)]
        more == WalkUpTree(ns, tr, << >>, {}, FALSE, oldest, HistoryChunk)
    IN  IF IsRootComment(oldest) \/ ~(cr[comment] - cr[oldest] < max_time)
        THEN [raised |-> "", value |-> comments]
        ELSE IF more.outcome = "None" THEN Raised("TypeError")
        ELSE IF more.outcome # "list" THEN Raised(more.outcome)
        ELSE IF fuel = 0 \/ Len(more.result) = 1 THEN Raised("diverges")
        ELSE ExtendHistory(ns, tr, cr, comment,
                           SubSeq(comments, 1, Len(comments) - 1) \o more.result,
                           max_time, fuel - 1)

\* walk_up_tree(limit=self.n)
HistoryLimitNoMore(r) == r.wait_n

\* walk_up_tree(limit=self.n + 1), and limit=2 of OnlyDoubleCounting
HistoryLimit(r) == IF r.kind = "OnlyDoubleCounting" THEN 2 ELSE r.wait_n + 1

\* CountingRule.get_history and OnlyDoubleCounting.get_history: the ids of
\* the rows of the frame, or the exception; None + 1 is a TypeError, and so
\* is None[-1].  OnlyDoubleCounting has no loop, which is the loop with a
\* window of 0.
GetHistory(r, ns, tr, cr, comment) ==
    IF r.kind # "OnlyDoubleCounting" /\ r.wait_n = None THEN Raised("TypeError")
    ELSE LET max_time == IF r.kind = "OnlyDoubleCounting" THEN 0
                         ELSE Max(r.thread_time, r.user_time)
             first == WalkUpTree(ns, tr, << >>, {}, FALSE, comment, HistoryLimit(r))
         IN  IF first.outcome = "None" THEN Raised("TypeError")
             ELSE IF first.outcome # "list" THEN Raised(first.outcome)
             ELSE LET all == ExtendHistory(ns, tr, cr, comment, first.result,
                                           max_time, NIds + 1)
                  IN  IF all.raised # "" THEN all
                      ELSE [raised |-> "", value |-> Reversed(Tail(all.value))]

MaxAncestors == 3

\* the parent map of a chain of n comments
ChainTree(n) == [i \in 2..n |-> i - 1]

\* the times between a comment and its reply
Gaps == {30, 2 * HOUR}

RECURSIVE TimesOf(_, _)
\* the times of the comments of a chain: comment 1 at 0, the others after their gaps
TimesOf(gaps, i) == IF i = 1 THEN 0 ELSE TimesOf(gaps, i - 1) + gaps[i]

GetHistoryCall(comment) ==
    LET r == GetHistory(rule, nodes, tree, created_utc, comment)
    IN  /\ answer' = Answer("get_history", comment, r.value, r.raised)
        /\ last' = Called("get_history", IF r.raised = "" THEN "none" ELSE r.raised, {})
        /\ UNCHANGED <<nodes, tree, depths>>
        /\ UNCHANGED <<walked, order, created_utc, comment_body, comment_tree, comment_author>>
        /\ UNCHANGED histVars

HistoryInit ==
    /\ DfaIdle /\ CacheIdle /\ CountIdle /\ ThreadIdle /\ FetchIdle /\ ParseIdle
    /\ \E n \in 1..(MaxAncestors + 1) :
          /\ nodes = 1..n
          /\ tree = ChainTree(n)
          /\ \E gaps \in [2..n -> Gaps] :
                created_utc = [i \in 1..n |-> TimesOf(gaps, i)]
    /\ depths = EmptyDict
    /\ last = Called("init", "none", {})
    /\ history = << >> /\ mask = NoMask /\ rule \in Rules
    /\ walked = NoWalk /\ order = << >> /\ comment_body = << >>
    /\ comment_tree = TRUE
    /\ answer = << >>
    /\ comment_author = << >>

HistoryNext ==
    (\E comment \in nodes : GetHistoryCall(comment))
        /\ UNCHANGED <<dfaVars, cacheVars, countVars, threadVars, fetchVars, parseVars>>

SpecHistory == HistoryInit /\ [][HistoryNext]_vars


(***************************************************************************)
(* CommentTree.prune, on a tree without a source that does not ask for     *)
(* missing replies                                                         *)
(***************************************************************************)
\* comment_to_dict: the row of a comment
CommentRow(au, cr, bd, c) == [username |-> au[c], timestamp |-> cr[c], body |-> bd[c]]

RowsOf(au, cr, bd, ids) == [k \in 1..Len(ids) |-> CommentRow(au, cr, bd, ids[k])]

\* the ids of a set in rising order
RECURSIVE Rising(_)
Rising(S) ==
    IF S = {} THEN << >>
    ELSE LET x == CHOOSE y \in S : \A z \in S : y <= z
         IN  <<x>> \o Rising(S \ {x})

\* prune with the children of a valid comment dropped from the queue
RECURSIVE PruneRunLeavesChildren(_, _, _, _, _, _, _, _, _)
PruneRunLeavesChildren(queue, ns, tr, ord, r, f, au, cr, bd) ==
    IF queue = << >> THEN {[nodes |-> ns, tree |-> tr, raised |-> "none"]}
    ELSE LET node == Head(queue).node
             judged == IsValidCount(r, f, CommentRow(au, cr, bd, node), Head(queue).history)
         IN  IF judged.verdict
             THEN PruneRunLeavesChildren(Tail(queue), ns, tr, ord, r, f, au, cr, bd)
             ELSE UNION {PruneRunLeavesChildren(Tail(queue), d.nodes, d.tree, ord, r, f, au, cr, bd)
                            : d \in DeleteSubtreeResults(ns, tr, node)}

\* the while loop of prune: the queue holds (node, history) pairs
RECURSIVE PruneRun(_, _, _, _, _, _, _, _, _)
PruneRun(queue, ns, tr, ord, r, f, au, cr, bd) ==
    IF queue = << >> THEN {[nodes |-> ns, tree |-> tr, raised |-> "none"]}
    ELSE LET node == Head(queue).node
             judged == IsValidCount(r, f, CommentRow(au, cr, bd, node), Head(queue).history)
             children == FindChildren(tr, ord, TRUE, cr, bd, node)
         IN  IF judged.verdict
             THEN PruneRun(Tail(queue) \o [k \in 1..Len(children) |->
                                  [node |-> children[k], history |-> judged.history]],
                           ns, tr, ord, r, f, au, cr, bd)
             ELSE UNION {IF d.raised # "none" THEN {d}
                         ELSE PruneRun(Tail(queue), d.nodes, d.tree, ord, r, f, au, cr, bd)
                            : d \in DeleteSubtreeResults(ns, tr, node)}

\* the queue prune starts with, or the exception of the first get_history
\* that raises
PruneFrom(roots, histories, ns, tr, ord, r, f, au, cr, bd) ==
    LET failed == {k \in 1..Len(roots) : histories[roots[k]].raised # ""}
    IN  IF failed # {}
        THEN {[nodes |-> ns, tree |-> tr,
               raised |-> histories[roots[CHOOSE k \in failed : \A m \in failed : k <= m]].raised]}
        ELSE PruneRun([k \in 1..Len(roots) |->
                          [node |-> roots[k],
                           history |-> RowsOf(au, cr, bd, histories[roots[k]].value)]],
                      ns, tr, ord, r, f, au, cr, bd)

\* CommentTree.prune: the queue starts with the roots and their histories;
\* a get_history that raises ends prune before anything is removed
Prune(ns, tr, ord, r, f, au, cr, bd) ==
    UNION {PruneFrom(Rising(RootIds(ns, tr)), histories, ns, tr, ord, r, f, au, cr, bd) :
              histories \in {[c \in RootIds(ns, tr) |-> GetHistory(r, ns, tr, cr, c)]}}

Authors == {"A", "C"}
PruneBodies == {"12", "twelve"}

PruneCall ==
    /\ last.op = "init"
    /\ \E p \in Prune(nodes, tree, order, rule, form, comment_author, created_utc, comment_body) :
          /\ nodes' = p.nodes
          /\ tree' = p.tree
          /\ last' = Called("prune", p.raised, nodes \ p.nodes)
    /\ order' = SelectSeq(order, LAMBDA c : c \in DOMAIN tree')
    /\ UNCHANGED <<depths, walked, created_utc, comment_body, comment_tree, answer, comment_author>>
    /\ UNCHANGED <<histVars, countVars>>

\* CommentTree(comments): any comments of the source, made 30 seconds apart
PruneInit ==
    /\ DfaIdle /\ CacheIdle /\ ThreadIdle /\ FetchIdle /\ ParseIdle
    /\ nodes \in SUBSET Ids
    /\ tree = NewTreeOf(nodes)
    /\ order = Rising(DOMAIN tree)
    /\ depths = EmptyDict
    /\ last = Called("init", "none", {})
    /\ history = << >> /\ mask = NoMask /\ rule \in Rules
    /\ form \in {permissive, base_10} /\ post = << >> /\ verdict = FALSE
    /\ walked = NoWalk
    /\ created_utc = [c \in Ids |-> 30 * c]
    /\ comment_body \in [Ids -> PruneBodies]
    /\ comment_author \in [Ids -> Authors]
    /\ comment_tree = TRUE
    /\ answer = << >>

PruneNext ==
    PruneCall /\ UNCHANGED <<dfaVars, cacheVars, threadVars, fetchVars, parseVars>>

SpecPrune == PruneInit /\ [][PruneNext]_vars


(***************************************************************************)
(* Properties of the tree                                                  *)
(***************************************************************************)
\* walk_up_tree's loop without a limit ends: following parent entries from
\* id leaves the parent map within as many steps as the map has entries
RECURSIVE ClimbEnds(_, _, _)
ClimbEnds(tr, id, k) ==
    IF id \notin DOMAIN tr THEN TRUE
    ELSE IF k = 0 THEN FALSE
    ELSE ClimbEnds(tr, tr[id], k - 1)

IsForest(tr) == \A id \in DOMAIN tr : ClimbEnds(tr, id, Cardinality(DOMAIN tr))

KeysHaveNodes == DOMAIN tree \subseteq nodes

\* every parent entry is the one the source gives for that comment
FromSource == \A c \in DOMAIN tree : tree[c] = SourceParent(c)

\* n and everything below it in the parent map tr
Subtree(tr, n) ==
    LET RECURSIVE Below(_, _)
        Below(S, k) ==
            IF k = 0 THEN S
            ELSE Below(S \cup {c \in DOMAIN tr : tr[c] \in S}, k - 1)
    IN  Below({n}, NIds)

\* find_depth(child) == find_depth(parent) + 1, asked in either order
EdgeDepthsAgree(c) ==
    LET p == tree[c]
        c1 == FindDepth(nodes, tree, depths, c)
        p1 == FindDepth(nodes, tree, c1.cache, p)
        p2 == FindDepth(nodes, tree, depths, p)
        c2 == FindDepth(nodes, tree, p2.cache, c)
    IN  /\ c1.raised = "none" /\ p1.raised = "none" /\ c1.val = p1.val + 1
        /\ c2.raised = "none" /\ p2.raised = "none" /\ c2.val = p2.val + 1

RootsHaveDepthZero ==
    \A r \in RootIds(nodes, tree) :
        LET d == FindDepth(nodes, tree, depths, r)
        IN  d.raised = "none" /\ d.val = 0

C2_DeleteSubtreeExact ==
    [][\A n \in Ids :
          (IsForest(tree) /\ KeysHaveNodes /\ n \in nodes /\ DeleteSubtree(n)) =>
              LET gone == Subtree(tree, n)
              IN  /\ nodes' = nodes \ gone
                  /\ tree' = [k \in (DOMAIN tree) \ gone |-> tree[k]]
                  /\ \A k \in DOMAIN tree' : k \notin gone /\ tree'[k] \notin gone]_vars

\* C2 witness: a delete_subtree call that removed a node and a descendant
\* and left another node in place
C2_Witness ==
    /\ last.op = "delete_subtree"
    /\ last.raised = "none"
    /\ Cardinality(last.removed) >= 2
    /\ nodes # {}
    /\ KeysHaveNodes
    /\ IsForest(tree)

\* C9 as stated: after any sequence of Tree operations the parent map is a
\* forest (no walk along parent entries returns to an id it has visited).
C9_AlwaysForest == IsForest(tree)

\* C9 amended: add_comments, delete_node, delete_subtree and the lazy
\* fetches keep a parent map that agrees with the source's reply forest in
\* agreement with it, and so a forest; add_nodes checks nothing.
C9_ForestFromSource ==
    [][(FromSource /\ last'.op # "add_nodes") =>
          (FromSource' /\ IsForest(tree'))]_vars

\* C9 witness: a lazy fetch has merged comments into a parent map of at
\* least two entries that agrees with the source
C9_Witness ==
    /\ last.op = "node"
    /\ Cardinality(DOMAIN tree) >= 2
    /\ KeysHaveNodes
    /\ FromSource
    /\ IsForest(tree)

\* C10 as stated: after any sequence of add_nodes, add_comments, delete_node
\* and delete_subtree calls every key of the parent map is a key of the node
\* map.
C10_KeysAlwaysHaveNodes == KeysHaveNodes

\* an add_nodes call whose new parent entries all have a node entry, in
\* new_nodes or in the node map
AddNodesWithNodes ==
    \E nn \in NodeArgs, nt \in TreeArgs :
        /\ DOMAIN nt \subseteq nodes \cup nn
        /\ AddNodes(nn, nt)

\* C10 amended: every call keeps the keys of the parent map among the keys
\* of the node map, provided an add_nodes call gives no parent entry for an
\* id that has no node entry.
C10_KeysKeepNodes ==
    [][(KeysHaveNodes /\ (last'.op = "add_nodes" => AddNodesWithNodes))
          => KeysHaveNodes']_vars

\* C10 witness: delete_node removed a node from a tree that still has parent
\* entries, all of them with node entries
C10_Witness ==
    /\ last.op = "delete_node"
    /\ last.removed # {}
    /\ DOMAIN tree # {}
    /\ KeysHaveNodes

(***************************************************************************)
(* Properties of the word ranking                                          *)
(***************************************************************************)
\* C3: for each language, the counts of the valid words follow their
\* (length, digit sequence) order: a valid word's count is one more than
\* the count of the last valid word before it (no valid word lies between
\* the two), so of any two valid words the greater has the greater count.
C3_RankFollowsOrder ==
    (prev # NoWord /\ WordIsValid(lang, base, word)) =>
        /\ cnt = prev.cnt + 1
        /\ cnt > prev.cnt

\* C3 witness: a valid three-digit word counted after a valid word
C3_Witness ==
    /\ prev # NoWord
    /\ Len(word) = 3
    /\ WordIsValid(lang, base, word)
    /\ WordIsValid(lang, base, prev.word)
    /\ cnt = prev.cnt + 1

\* C7: in base 10, only repeating digits counts "11" as one more than the
\* number of valid words of length 1.
C7_ElevenFollowsLengthOne ==
    (lang = "only_repeating" /\ base = NSymbols /\ word = <<1, 1>>) =>
        cnt = Cardinality({d \in 1..(NSymbols - 1) :
                              WordIsValid("only_repeating", NSymbols, <<d>>)}) + 1

\* C7 witness: "11" has been counted in base 10, and is the first count
C7_Witness ==
    /\ lang = "only_repeating"
    /\ base = NSymbols
    /\ word = <<1, 1>>
    /\ cnt = 1

(***************************************************************************)
(* Properties of the rules and of find_errors                              *)
(***************************************************************************)
Usernames(h) == [i \in Rows(h) |-> h[i].username]

Flagged == {i \in DOMAIN mask : mask[i]}

Rejected == {i \in DOMAIN mask : ~mask[i]}

\* C4 (as stated): find_errors on the counts 1,2,3,5,6 returns exactly the
\* entry with count 5, and on the counts 1,2,4,3,5 exactly the entry with
\* count 4.
C4_FlagsTheFour ==
    mask # NoMask =>
        /\ Counts(history) = <<1, 2, 3, 5, 6>> => Flagged = {4}
        /\ Counts(history) = <<1, 2, 4, 3, 5>> => Flagged = {3}

\* C4 (amended): find_errors on the counts 1,2,3,5,6 returns exactly the
\* entry with count 5; on the counts 1,2,4,3,5 it returns no entry, the
\* last count being back on its position.
C4_FlagsOnlyAfterLastOnTrack ==
    mask # NoMask =>
        /\ Counts(history) = <<1, 2, 3, 5, 6>> => Flagged = {4}
        /\ Counts(history) = <<1, 2, 4, 3, 5>> => Flagged = {}

\* C4 witness: find_errors has run on 1,2,4,3,5 and flagged nothing
C4_Witness ==
    /\ Counts(history) = <<1, 2, 4, 3, 5>>
    /\ Len(mask) = 5
    /\ Flagged = {}

\* C5 (as stated): only double counting marks every entry of A,A,B,B,A,A
\* valid and at least one entry of A,B,B,A invalid.
C5_MismatchedPairRejected ==
    (rule = OnlyDoubleCounting /\ mask # NoMask) =>
        /\ Usernames(history) = <<"A", "A", "B", "B", "A", "A">> => Rejected = {}
        /\ Usernames(history) = <<"A", "B", "B", "A">> => Rejected # {}

\* C5 (amended): only double counting marks every entry of A,A,B,B,A,A
\* valid, and every entry of A,B,B,A too (its pairs line up from the
\* second entry); of A,B,A,B it marks the third entry invalid.
C5_PairsInEitherDirection ==
    (rule = OnlyDoubleCounting /\ mask # NoMask) =>
        /\ Usernames(history) = <<"A", "A", "B", "B", "A", "A">> => Rejected = {}
        /\ Usernames(history) = <<"A", "B", "B", "A">> => Rejected = {}
        /\ Usernames(history) = <<"A", "B", "A", "B">> => Rejected = {3}

\* C5 witness: A,B,B,A has been validated and every entry is valid
C5_Witness ==
    /\ rule = OnlyDoubleCounting
    /\ Usernames(history) = <<"A", "B", "B", "A">>
    /\ Len(mask) = 4
    /\ Rejected = {}

SecondsSincePrevious(i) == history[i].timestamp - history[i - 1].timestamp

\* C6: under FastOrSlow an entry that passes the skip check is accepted iff
\* it is the first or comes less than 5 minutes or at least 1 hour after
\* the entry before it: 10 minutes after is rejected, 4 minutes or 2 hours
\* after an entry of another author is accepted.
C6_FastOrSlowWindow ==
    (rule = FastOrSlow /\ mask # NoMask) =>
        \A i \in Rows(history) :
            /\ mask[i] <=>
                  /\ ValidSkip(rule, history)[i]
                  /\ \/ i = 1
                     \/ SecondsSincePrevious(i) < 300
                     \/ SecondsSincePrevious(i) >= 3600
            /\ (i > 1 /\ SecondsSincePrevious(i) = 600) => ~mask[i]
            /\ (/\ i > 1
                /\ SecondsSincePrevious(i) \in {240, 7200}
                /\ history[i].username # history[i - 1].username) => mask[i]

\* C6 witness: an entry 10 minutes after the previous one was rejected and
\* the next, 2 hours later by another author, accepted
C6_Witness ==
    /\ rule = FastOrSlow
    /\ Len(history) = 3
    /\ Len(mask) = 3
    /\ SecondsSincePrevious(2) = 600
    /\ ~mask[2]
    /\ SecondsSincePrevious(3) = 7200
    /\ history[3].username # history[2].username
    /\ mask[3]

RECURSIVE MatPow(_, _, _)
MatPow(dfa, matrix, k) ==
    IF k = 0 THEN Eye(dfa) ELSE MatMul(matrix, MatPow(dfa, matrix, k - 1))

LargestRequested == CHOOSE i \in requested : \A k \in requested : k <= i

CacheIsPowers ==
    /\ transitions[1] = Eye(automaton)
    /\ \A k \in 2..Len(transitions) :
           transitions[k] =
               MatMul(transitions[k - 1], GenerateTransitionMatrix(automaton))
    /\ Len(transitions) = IF requested = {} THEN 1 ELSE 1 + LargestRequested
    /\ requested # {} =>
           \E i \in requested :
               returned = MatPow(automaton, GenerateTransitionMatrix(automaton), i)

CacheOnlyGrows ==
    /\ Len(transitions') >= Len(transitions)
    /\ \A k \in 1..Len(transitions) : transitions'[k] = transitions[k]

\* C11: after any lookups dfa[i], transitions[0] is the identity, every
\* cached transitions[k] is transitions[k - 1] times the transition matrix,
\* the cache is as long as 1 + the largest index asked for, and a lookup
\* leaves every power already cached as it was.
C11_CacheOfPowers == [](CacheIsPowers) /\ [][CacheOnlyGrows]_vars

\* C11 witness: a lookup below the largest index asked for, on a cache of
\* four powers
C11_Witness ==
    /\ Len(transitions) = 4
    /\ requested = {1, 3}
    /\ returned = transitions[2]
    /\ returned # transitions[4]

EarlierBySameAuthor(i) ==
    {j \in 1..(i - 1) : history[j].username = history[i].username}

SkipLimit == IF rule.wait_n = None THEN Len(history) ELSE rule.wait_n

\* C13: CountingRule.is_valid marks an entry valid iff it passes the skip
\* check, comes at least thread_time after the entry before it and at
\* least user_time after its author's previous entry; the time checks
\* pass where there is no such earlier entry.
C13_ThreeChecks ==
    (rule.kind = "CountingRule" /\ mask # NoMask) =>
        \A i \in Rows(history) :
            mask[i] <=>
                /\ \A j \in EarlierBySameAuthor(i) : i - j > SkipLimit
                /\ i > 1 =>
                      history[i].timestamp - history[i - 1].timestamp >= rule.thread_time
                /\ \A j \in EarlierBySameAuthor(i) :
                      history[i].timestamp - history[j].timestamp >= rule.user_time

\* C13 witness: the third entry passes the skip and thread-time checks and
\* is marked invalid for coming too soon after its author's first entry
C13_Witness ==
    /\ rule = CountingRule(1, 0, HOUR)
    /\ Len(history) = 3
    /\ Len(mask) = 3
    /\ history[3].username = history[1].username
    /\ history[3].username # history[2].username
    /\ history[3].timestamp - history[1].timestamp < HOUR
    /\ mask[1] /\ mask[2] /\ ~mask[3]

NoTimeChecks == rule.kind = "CountingRule" /\ rule.thread_time = 0 /\ rule.user_time = 0

\* the authors of the entries before i, but the author of i
OtherParticipants(i) ==
    {history[j].username : j \in 1..(i - 1)} \ {history[i].username}

LastBySameAuthor(i) ==
    CHOOSE j \in EarlierBySameAuthor(i) : \A k \in EarlierBySameAuthor(i) : k <= j

\* C14 (as stated): the skip check passes an entry iff it is its author's
\* first or the gap in position since the author's previous entry exceeds
\* wait_n; with wait_n unset it passes a repeat entry iff every other
\* participant seen so far has posted since the author's previous entry.
C14_UnsetWaitsForEveryone ==
    (NoTimeChecks /\ mask # NoMask) =>
        \A i \in Rows(history) :
            IF EarlierBySameAuthor(i) = {} THEN mask[i]
            ELSE IF rule.wait_n # None
            THEN mask[i] <=> i - LastBySameAuthor(i) > rule.wait_n
            ELSE mask[i] <=>
                    \A u \in OtherParticipants(i) :
                        \E j \in (LastBySameAuthor(i) + 1)..(i - 1) :
                            history[j].username = u

\* C14 (amended): the skip check passes an entry iff it is its author's
\* first or the gap in position since the author's previous entry exceeds
\* wait_n; with wait_n unset it passes no repeat entry at all.
C14_UnsetAllowsNoRepeat ==
    (NoTimeChecks /\ mask # NoMask) =>
        \A i \in Rows(history) :
            IF EarlierBySameAuthor(i) = {} THEN mask[i]
            ELSE IF rule.wait_n # None
            THEN mask[i] <=> i - LastBySameAuthor(i) > rule.wait_n
            ELSE ~mask[i]

\* C14 witness: with wait_n unset, A posts again after B and is rejected
C14_Witness ==
    /\ rule = CountingRule(None, 0, 0)
    /\ Len(history) = 3
    /\ Len(mask) = 3
    /\ history[1].username = "A"
    /\ history[2].username = "B"
    /\ history[3].username = "A"
    /\ mask[1] /\ mask[2] /\ ~mask[3]

(***************************************************************************)
(* Properties of SideThread's construction                                 *)
(***************************************************************************)
ResultOfLastCall(method) ==
    IF method = "title_updater"
    THEN TitleUpdater(updated.old_count, updated.chain, updated.was_revival)
    ELSE IF method = "update_function"
    THEN UpdateFromTraversal(updated.old_count, updated.chain, updated.was_revival)
    ELSE UpdateFromLength(side_thread, updated.old_count, updated.chain,
                          updated.was_revival)

\* C15 (as stated): update_count uses the count extractor if one was
\* supplied, otherwise the update_function, otherwise the nominal length.
C15_ExtractorFirst ==
    updated # NoUpdate =>
        updated.result =
            ResultOfLastCall(IF side_thread.comment_to_count THEN "title_updater"
                             ELSE IF side_thread.update_function THEN "update_function"
                             ELSE "update_from_length")

\* C15 (amended): update_count uses the nominal length if one was
\* supplied, otherwise the update_function, otherwise the count extractor,
\* and with none of the three the default length of 1000.
C15_LengthFirst ==
    updated # NoUpdate =>
        /\ updated.result =
               ResultOfLastCall(IF side_thread.given_length # None THEN "update_from_length"
                                ELSE IF side_thread.update_function THEN "update_function"
                                ELSE IF side_thread.comment_to_count THEN "title_updater"
                                ELSE "update_from_length")
        /\ (/\ side_thread.given_length = None
            /\ ~side_thread.update_function
            /\ ~side_thread.comment_to_count) => side_thread.length = 1000

\* C15 witness: a thread given all three projects two submissions from
\* the length, not from the title
C15_Witness ==
    /\ side_thread.comment_to_count
    /\ side_thread.update_function
    /\ side_thread.given_length = 500
    /\ Len(updated.chain) = 2
    /\ updated.was_revival = << >>
    /\ updated.old_count = 4000
    /\ updated.result = Returned(4500)

(***************************************************************************)
(* Properties of the requests to the source                                *)
(***************************************************************************)
\* C16: once a comment has been fetched and merged into the tree, no later
\* node, parent, find_children or walk_up_tree call issues another request
\* for it.
C16_NoSecondRequest ==
    [][\A c \in nodes : requests'[c] = requests[c]]_vars

\* C17: a failure of the source never leaves node, parent, find_children or
\* walk_up_tree: no such call ends with the source's exception.
C17_FailuresAreCaught == last.raised # "ServerError"

(***************************************************************************)
(* Properties of the walks                                                 *)
(***************************************************************************)
\* each next element is the parent of the previous one
IsPathUp(tr, walk) ==
    \A k \in 1..(Len(walk) - 1) :
        walk[k] \in DOMAIN tr /\ walk[k + 1] = tr[walk[k]]

\* C18: walk_up_tree(node, limit) returns a list that starts with node, in
\* which each next element is the parent of the previous one, and which ends
\* at the root when limit is absent; with a limit (of one or more) it has at
\* most limit elements; it returns None when the id is in neither map.
C18_WalkUpReturnsPath ==
    [][last'.op = "walk_up_tree" =>
         LET w == walked'
         IN  /\ w.node \notin nodes \cup DOMAIN tree => w.outcome = "None"
             /\ w.node \in nodes =>
                  /\ w.outcome = "list"
                  /\ w.result[1] = w.node
                  /\ IsPathUp(tree, w.result)
                  /\ w.limit = None => w.result[Len(w.result)] \notin DOMAIN tree
                  /\ (w.limit # None /\ w.limit >= 1) => Len(w.result) <= w.limit]_vars

\* where the parent map holds the key c
Position(c) == CHOOSE k \in DOMAIN order : order[k] = c

Deleted(c) == comment_body[c] \in deleted_phrases

\* c comes before d among the children find_children returns: in a
\* CommentTree a comment that is not deleted before a deleted one, then the
\* earlier made, then the one the parent map holds first; in a Tree the one
\* the parent map holds first
Before(c, d) ==
    IF ~comment_tree THEN Position(c) < Position(d)
    ELSE \/ ~Deleted(c) /\ Deleted(d)
         \/ /\ Deleted(c) = Deleted(d)
            /\ \/ created_utc[c] < created_utc[d]
               \/ created_utc[c] = created_utc[d] /\ Position(c) < Position(d)

\* c is made before d, or at the same time with the smaller id
EarlierThenId(c, d) ==
    \/ created_utc[c] < created_utc[d]
    \/ created_utc[c] = created_utc[d] /\ c < d

\* the walk is a path from its node to a leaf
IsPathDown(walk) ==
    /\ walk[1] = walked.node
    /\ \A k \in 1..(Len(walk) - 1) : walk[k + 1] \in ReversedTree(tree, walk[k])
    /\ ReversedTree(tree, walk[Len(walk)]) = {}

DigitPlaces == {k \in DOMAIN text : text[k] \in Digits}

\* the run that starts at the first digit and holds digits and the
\* characters of seps only: its last place
RunEnd(first, seps) ==
    CHOOSE j \in first..Len(text) :
        /\ \A k \in first..j : text[k] \in Digits \cup seps
        /\ j = Len(text) \/ text[j + 1] \notin Digits \cup seps

\* the number the digits at the places of P spell, read from the left
Spelt(P) ==
    SumOver(P, [k \in P |->
        DigitValue(text[k]) * Pow(10, Cardinality({m \in P : m > k}))])

\* what is expected of the text when seps are the separators
CountExpected(seps) ==
    IF DigitPlaces = {} THEN Raised("ValueError")
    ELSE LET first == CHOOSE k \in DigitPlaces : \A m \in DigitPlaces : k <= m
             run == first..RunEnd(first, seps)
         IN  Returned(Spelt(DigitPlaces \cap run))

\* C20 as stated: the leading non-digits are skipped, the run of digits and
\* of the separators ',', '.', '*', '/' that follows is taken and the digits
\* in it are the count; ValueError iff the text has no digit.
C20_FourSeparators ==
    parsed # NotParsed => parsed = CountExpected({",", ".", "*", "/"})

\* C20 amended: the same with the space as a fifth separator.
C20_FiveSeparators ==
    parsed # NotParsed => parsed = CountExpected({",", ".", "*", "/", " "})

\* a count written with a space between its digits and text after it
C20_Witness ==
    /\ parsed # NotParsed /\ parsed.raised = "" /\ parsed.value = 70
    /\ \E k \in DOMAIN text : text[k] = " " /\ k > 1 /\ text[k - 1] \in Digits
    /\ text[1] \notin Digits

(***************************************************************************)
(* Properties of the queries between edits                                 *)
(***************************************************************************)
\* the number of parent links from id to its root in the parent map
RECURSIVE LinkCount(_, _, _, _)
LinkCount(ns, tr, id, fuel) ==
    IF id \in RootIds(ns, tr) \/ id \notin DOMAIN tr \/ fuel = 0 THEN 0
    ELSE 1 + LinkCount(ns, tr, tr[id], fuel - 1)

\* C21: whatever edits (add_nodes, delete_node, delete_subtree) come between
\* the queries, find_depth(n) of a node of a forest returns the number of
\* parent links from n to its root in the current parent map, never a depth
\* memoised before an edit changed it.
C21_DepthFollowsEdits ==
    [][(/\ last'.op = "find_depth" /\ answer'.raised = "none"
        /\ IsForest(tree) /\ KeysHaveNodes /\ answer'.arg \in nodes) =>
          answer'.value = LinkCount(nodes, tree, answer'.arg, NIds)]_vars

(***************************************************************************)
(* Properties of get_history                                               *)
(***************************************************************************)
\* the history asked for with a CountingRule whose wait_n is set
HistoryReturned ==
    /\ answer # << >> /\ answer.op = "get_history"
    /\ rule.kind # "OnlyDoubleCounting" /\ rule.wait_n # None

\* h holds ancestors of post only, oldest first and without a gap, down to
\* the parent of post
NearestAncestors(h, p) ==
    \A k \in 1..Len(h) : h[k] = p - Len(h) + k - 1

\* the oldest comment collected, post itself when none is
OldestCollected(h, p) == p - Len(h)

\* the oldest comment collected ends the search: it is a root comment, or
\* max(thread_time, user_time) or more older than post
SearchEnded(h, p) ==
    LET oldest == OldestCollected(h, p)
    IN  \/ IsRootComment(oldest)
        \/ created_utc[p] - created_utc[oldest] >= Max(rule.thread_time, rule.user_time)

\* C25 as stated: the history holds the ancestors of post oldest first, at
\* least wait_n + 1 of them whenever post has that many, and goes on while
\* the oldest collected is no root and inside the window.
C25_AtLeastWaitPlusOne ==
    HistoryReturned =>
        /\ answer.raised = ""
        /\ NearestAncestors(answer.value, answer.arg)
        /\ (answer.arg - 1 >= rule.wait_n + 1 => Len(answer.value) >= rule.wait_n + 1)
        /\ SearchEnded(answer.value, answer.arg)

\* C25 amended: the history holds the ancestors of post oldest first, wait_n
\* of them or all if post has fewer, and more than wait_n only when the
\* wait_n-th ancestor is no root and inside the window; the oldest collected
\* is a root or outside the window.
C25_AtLeastWait ==
    HistoryReturned =>
        /\ answer.raised = ""
        /\ NearestAncestors(answer.value, answer.arg)
        /\ Len(answer.value) >= Min(rule.wait_n, answer.arg - 1)
        /\ Len(answer.value) > rule.wait_n =>
              ~SearchEnded(SubSeq(answer.value, Len(answer.value) - rule.wait_n + 1,
                                  Len(answer.value)), answer.arg)
        /\ SearchEnded(answer.value, answer.arg)

\* a post with more ancestors than wait_n, whose history stops at wait_n
C25_Witness ==
    /\ HistoryReturned /\ answer.raised = ""
    /\ answer.arg - 1 > rule.wait_n
    /\ Len(answer.value) = rule.wait_n

\* a history extended beyond wait_n ancestors by the window
C25_Extended ==
    /\ HistoryReturned /\ answer.raised = ""
    /\ Len(answer.value) > rule.wait_n

\* C29: for every rule of the registered side threads, wait_n=None of 'once
\* per thread' included, get_history returns a history and never raises.
C29_GetHistoryReturns ==
    (answer # << >> /\ answer.op = "get_history") => answer.raised = ""

(***************************************************************************)
(* Properties of prune                                                     *)
(***************************************************************************)
\* the comments from the root of c down to c, in the tree before prune
RECURSIVE PathTo(_, _)
PathTo(c, fuel) ==
    IF c \in RootIds(nodes, tree) \/ c \notin DOMAIN tree \/ fuel = 0 THEN <<c>>
    ELSE Append(PathTo(tree[c], fuel - 1), c)

\* the history is_valid_count gets for the k-th comment of a path: the
\* history of the root and the comments of the path above it
PathHistory(path, k) ==
    RowsOf(comment_author, created_utc, comment_body,
           GetHistory(rule, nodes, tree, created_utc, path[1]).value
              \o SubSeq(path, 1, k - 1))

\* is_valid_count judges the k-th comment of the path valid
JudgedValid(path, k) ==
    IsValidCount(rule, form,
                 CommentRow(comment_author, created_utc, comment_body, path[k]),
                 PathHistory(path, k)).verdict

\* c and every comment above it in the tree is judged valid
ValidFromRoot(c) ==
    LET path == PathTo(c, NIds) IN \A k \in 1..Len(path) : JudgedValid(path, k)

\* the comments below c in the tree before prune, c among them
CommentsBelow(c) == {d \in nodes : \E k \in 1..Len(PathTo(d, NIds)) : PathTo(d, NIds)[k] = c}

\* prune judged c, and judged it invalid: the comments above c were valid
JudgedInvalid(c) ==
    LET path == PathTo(c, NIds)
    IN  /\ \A k \in 1..(Len(path) - 1) : JudgedValid(path, k)
        /\ ~JudgedValid(path, Len(path))

C30_DeepestLeaf ==
    [][(last'.op = "deepest_node" /\ answer'.raised = "none"
            /\ IsForest(tree) /\ KeysHaveNodes) =>
          IF nodes = {} THEN answer'.value = None
          ELSE /\ answer'.value \in leaves(nodes, tree)
               /\ \A l \in leaves(nodes, tree) :
                     LinkCount(nodes, tree, l, NIds)
                        <= LinkCount(nodes, tree, answer'.value, NIds)]_vars

(***************************************************************************)
(* Properties of find_errors, entry by entry                               *)
(***************************************************************************)
\* the last on-track position: the last row j whose count is count_0 + j
\* (rows are numbered from 1 here, so count_1 + j - 1); the first row always is
LastOnTrackRow(c) ==
    CHOOSE j \in DOMAIN c :
        /\ c[j] - c[1] = j - 1
        /\ \A k \in DOMAIN c : c[k] - c[1] = k - 1 => k <= j

\* the four conditions of the claim for row i
IntroducesError(c, i) ==
    /\ i > LastOnTrackRow(c)
    /\ c[i] # c[i - 1] + 1
    /\ (i > 2 => c[i] # c[i - 2] + 2)
    /\ c[i] - c[1] # i - 1

\* C23: find_errors reports the entry at position i iff i lies after the
\* last on-track position, its count is not one more than the count before
\* it, not two more than the count two before it, and not the count its
\* position calls for; no entry at or before the last on-track position is
\* reported.
C23_ReportedIffErrorAfterOnTrack ==
    mask # NoMask =>
        /\ \A i \in Rows(history) : mask[i] <=> IntroducesError(Counts(history), i)
        /\ \A i \in Rows(history) : i <= LastOnTrackRow(Counts(history)) => ~mask[i]

\* C23 witness: find_errors has reported one entry after the last on-track
\* position and passed over another, and suppressed an off-track entry
\* before it
C23_Witness ==
    /\ mask # NoMask
    /\ \E i, k \in Rows(history) :
          /\ i > LastOnTrackRow(Counts(history)) /\ mask[i]
          /\ k > LastOnTrackRow(Counts(history)) /\ ~mask[k]
    /\ \E i \in Rows(history) :
          /\ i < LastOnTrackRow(Counts(history))
          /\ Counts(history)[i] - Counts(history)[1] # i - 1

(***************************************************************************)
(* Properties of the one-step transition matrix                            *)
(***************************************************************************)
\* appending symbol s turns state i into state j: the occurrence count of s
\* goes up by one unless it is at n_states - 1 already, the others stay
TurnsInto(dfa, i, s, j) ==
    \A pos \in 0..(dfa.n_symbols - 1) :
        StateDigit(dfa, j, pos) =
            IF pos # s THEN StateDigit(dfa, i, pos)
            ELSE IF StateDigit(dfa, i, pos) = dfa.n_states - 1 THEN dfa.n_states - 1
            ELSE StateDigit(dfa, i, pos) + 1

SymbolsInto(dfa, i, j) == {s \in 0..(dfa.n_symbols - 1) : TurnsInto(dfa, i, s, j)}

\* the symbols of state i that are at their last occurrence count
Saturated(dfa, i) ==
    {s \in 0..(dfa.n_symbols - 1) : StateDigit(dfa, i, s) = dfa.n_states - 1}

\* C24: in the one-step transition matrix, for every state i and every state
\* j other than 1, entry (i, j) is the number of symbols whose saturating
\* occurrence-count increment turns state i into state j, so the self-loop
\* of a state weighs its number of saturated symbols, and entry (i, 1) is 0
\* for every i.
C24_EntriesCountSymbols ==
    transition_matrix # NoMatrix =>
        \A i \in States(automaton) :
            /\ \A j \in States(automaton) \ {1} :
                  transition_matrix[i + 1][j + 1] =
                      Cardinality(SymbolsInto(automaton, i, j))
            /\ i # 1 => transition_matrix[i + 1][i + 1] =
                            Cardinality(Saturated(automaton, i))
            /\ transition_matrix[i + 1][2] = 0

\* C24 witness: the matrix of an automaton has been generated that has a
\* state with two saturated symbols, and a symbol that leads from state 0
\* into state 1
C24_Witness ==
    /\ transition_matrix # NoMatrix
    /\ \E i \in States(automaton) :
          /\ Cardinality(Saturated(automaton, i)) = 2
          /\ transition_matrix[i + 1][i + 1] = 2
    /\ SymbolsInto(automaton, 0, 1) # {}

(***************************************************************************)
(* Properties of update_from_length                                        *)
(***************************************************************************)
\* the number of posts of the last chain that are not flagged as revivals
PostsLeft ==
    IF updated.was_revival = << >> THEN Len(updated.chain)
    ELSE Cardinality({i \in 1..Len(updated.chain) : ~updated.was_revival[i]})

\* C26 (as stated): a side thread that updates from its nominal length L
\* adds to old_count L times the number of chain posts left after the posts
\* flagged as revivals are filtered out.
C26_LengthTimesPostsLeft ==
    (updated # NoUpdate /\ side_thread.update_count = "update_from_length") =>
        updated.result = Returned(updated.old_count + side_thread.length * PostsLeft)

\* C26 (amended): a side thread that updates from its nominal length L adds
\* to old_count L times one less than the number of chain posts left after
\* the posts flagged as revivals are filtered out: the first post left is
\* not counted, and nothing is added when no post is left.
C26_LengthTimesPostsAfterFirst ==
    (updated # NoUpdate /\ side_thread.update_count = "update_from_length") =>
        updated.result =
            Returned(updated.old_count
                        + side_thread.length * (IF PostsLeft = 0 THEN 0 ELSE PostsLeft - 1))

\* C26 witness: a thread of length 500 has projected a chain of two posts,
\* the second flagged as a revival, and added nothing
C26_Witness ==
    /\ side_thread.update_count = "update_from_length"
    /\ side_thread.length = 500
    /\ Len(updated.chain) = 2
    /\ updated.was_revival = <<FALSE, TRUE>>
    /\ updated.old_count = 4000
    /\ updated.result = Returned(4000)

(***************************************************************************)
(* Properties of complete_words                                            *)
(***************************************************************************)
\* the words of k digits in base n that do not start with zero
WordsOfLength(n, k) == {w \in [1..k -> 0..(n - 1)] : w[1] # 0}

\* the words of k digits without a leading zero that the automaton takes
\* into one of the accepting states
AcceptedWords(dfa, accepting, n, k) ==
    {w \in WordsOfLength(n, k) : GetState(dfa, w) \in accepting}

\* C27: for each language and every length k >= 1, complete_words(k) is the
\* number of words of length k without a leading zero that the automaton
\* accepts, which is the sum of transitions[k][0, s] over the accepting
\* states s.
C27_ClosedFormCountsAccepted ==
    answer # << >> =>
        LET accepting == GenerateIndices(lang, base)
        IN  /\ answer.value =
                   Cardinality(AcceptedWords(DfaOf(lang), accepting, base, answer.arg))
            /\ answer.value = RowSum(DfaOf(lang), accepting, answer.arg, 0)

\* C27 witness: complete_words(3) of only consecutive digits in base 10 has
\* been computed, and is not 0
C27_Witness ==
    /\ answer # << >>
    /\ lang = "only_consecutive"
    /\ base = NSymbols
    /\ answer.arg = 3
    /\ answer.value > 0

(***************************************************************************)
(* Properties of count with and without precalculation                     *)
(***************************************************************************)
\* C28: for each language and every word without a leading zero, count
\* returns the same value with precalculate=True, where the shorter words
\* and the smaller leading digits come from the closed form, as with
\* precalculate=False, where they come from the transition matrices.
C28_PrecalculateAgrees ==
    /\ word[1] # 0
    /\ cnt = Count(lang, base, ~precalc, word)

\* C28 witness: a valid three-digit word that is not the first of its
\* length has been counted with the closed forms
C28_Witness ==
    /\ precalc
    /\ lang = "mostly_repeating"
    /\ Len(word) = 3
    /\ word[1] > 1
    /\ WordIsValid(lang, base, word)
    /\ cnt = Count(lang, base, FALSE, word)
    /\ cnt > 1

====
